---- MODULE Spec2Model ----
(***************************************************************************)
(* A model of the price fetcher's core: the alert registry and evaluator   *)
(* (internal/service/alerts.go), the expiring cache of the Alpha Vantage   *)
(* service and its concurrent batch fetch (internal/service/               *)
(* alpha_vantage.go), and the sequential mock batch fetch                  *)
(* (internal/service/service.go).                                          *)
(*                                                                         *)
(* Prices and thresholds are float64 in the source; here they are integers *)
(* counting thousandths (100004 is 100.004), so that the "%.2f" of the     *)
(* alert id is a real rounding.  Times are integers of one clock, now.     *)
(***************************************************************************)
EXTENDS Integers, Sequences, FiniteSets, TLC

VARIABLES
    now,            \* time.Now(), in ticks
    last,           \* the call or step that completed last, with its result
    \* ---- AlertService (alerts.go)
    alerts,         \* s.alerts: alert id -> Alert
    pc,             \* per CheckAlerts pass: its position in the loop body
    remaining,      \* per pass: the map keys the range loop has yet to visit
    cur,            \* per pass: the id of the loop variable alert
    price,          \* per pass: the local price of the iteration
    webhookCalls,   \* per stored alert: sendWebhook calls made for it
    transitions,    \* per stored alert: assignments of TriggeredAt made to it
    delivery,       \* per stored alert: what its latest sendWebhook call returned
    waiting,        \* the DeleteAlert calls blocked in alertsMutex.Lock()
    checker,        \* the StartAlertChecker goroutine: its ticker, its context, its position
    failures,       \* the stored alerts whose latest FetchPrice in a pass returned an error
    \* ---- AlphaVantageService cache (alpha_vantage.go)
    cache,          \* s.cache: key -> cacheEntry
    cacheTTL,       \* s.cacheTTL
    maxCacheSize,   \* s.maxCacheSize
    putAt,          \* per key: the time of the latest set of that key
    cacheMutex,     \* s.cacheMutex: the goroutine holding Lock, those holding RLock
    callers,        \* per goroutine calling the cache: its call and its position in it
    \* ---- AlphaVantageService.FetchPrices (alpha_vantage.go)
    tickers,        \* the tickers argument
    wpc,            \* per worker goroutine: its position
    semaphore,      \* number of tokens held in the semaphore channel
    results,        \* the results map
    errors,         \* the errors slice (the ticker each error is about)
    outcome,        \* per worker: what its FetchPrice returned
    batchRet,       \* what FetchPrices returned
    response,       \* the BatchPriceResponse handleFetchPrices wrote
    mutexes,        \* resultsMutex and errorsMutex: the worker holding each
    local,          \* per worker that is updating results or errors: the value it read
    \* ---- LoggingService (logging.go)
    logging,        \* the LoggingService method in progress: its position, its locals
    \* ---- main (cmd)
    alertCache,     \* the cache of the price service that main builds for NewAlertService
    peer            \* a second FetchPrices call on the service: its workers, its semaphore

alertVars == <<alerts, pc, remaining, cur, price, webhookCalls, transitions, delivery, waiting, checker, failures>>
cacheVars == <<cache, cacheTTL, maxCacheSize, putAt, cacheMutex, callers>>
batchVars == <<tickers, wpc, semaphore, results, errors, outcome, batchRet, response, mutexes, local, logging>>
mainVars == <<alertCache, peer>>
vars == <<now, last, alertVars, cacheVars, batchVars, mainVars>>

-----------------------------------------------------------------------------
(* Bounds *)

MaxTime == 2          \* the clock runs from 0 to MaxTime
MaxTTL == 2           \* cacheTTL is drawn from 0..MaxTTL
MaxCap == 2           \* maxCacheSize is drawn from 0..MaxCap
MaxShort == 3         \* every ticker list of at most MaxShort tickers is an input
MaxTickers == 6       \* the length of the one long ticker list
MaxStarted == 2       \* passes that StartAlertChecker may start after the cancellation
MaxEntries == 20      \* the number of entries of the large cache evictOldest is applied to

-----------------------------------------------------------------------------
(* Common values *)

NoTime == -1                     \* a nil *time.Time
NotSent == "unsent"              \* no sendWebhook call made yet
None == [op |-> "none"]
\* what a FetchPrice call returns: (price, nil) or (0, err)
Fetched(p) == [err |-> FALSE, price |-> p]
FetchFailed == [err |-> TRUE, price |-> 0]

Tick ==
    /\ now < MaxTime
    /\ now' = now + 1
    /\ last' = [op |-> "tick"]

-----------------------------------------------------------------------------
(* AlertService *)

ConditionAbove == "above"
ConditionBelow == "below"
Conditions == {ConditionAbove, ConditionBelow}

AlertTickers == {"AAPL"}
Thresholds == {100000, 100004}
WebhookURLs == {"", "http://hook"}
\* what priceSvc.FetchPrice may return for a ticker: a price or an error
Prices == {99000, 100000, 101000}

Passes == {1, 2}
\* the one pass at a time of a single StartAlertChecker loop
SeqPasses == {1}

Digits2(n) == IF n < 10 THEN "0" \o ToString(n) ELSE ToString(n)

\* fmt.Sprintf("%.2f", threshold): rounded to hundredths
FormatThreshold(th) ==
    LET cents == (th + 5) \div 10
    IN  ToString(cents \div 100) \o "." \o Digits2(cents % 100)

\* fmt.Sprintf("%s-%s-%.2f", ticker, condition, threshold)
AlertID(ticker, condition, threshold) ==
    ticker \o "-" \o condition \o "-" \o FormatThreshold(threshold)

\* an existing alert of the same id kept instead of replaced
NewAlert_KeepFirst(ticker, condition, threshold, webhookURL, t) ==
    LET id == AlertID(ticker, condition, threshold)
    IN  IF id \in DOMAIN alerts THEN alerts[id]
        ELSE [ID |-> id, Ticker |-> ticker, Condition |-> condition,
              Threshold |-> threshold, WebhookURL |-> webhookURL, Active |-> TRUE,
              CreatedAt |-> t, TriggeredAt |-> NoTime]

NewAlert(ticker, condition, threshold, webhookURL, t) ==
    [ID |-> AlertID(ticker, condition, threshold),
     Ticker |-> ticker,
     Condition |-> condition,
     Threshold |-> threshold,
     WebhookURL |-> webhookURL,
     Active |-> TRUE,
     CreatedAt |-> t,
     TriggeredAt |-> NoTime]

\* alertsMutex: CheckAlerts holds the read lock from its first line to its
\* return; the other methods hold their lock for one step.
Readers == {p \in Passes : pc[p] # "idle"}

\* a lock that excludes nobody
CanLock_Always == TRUE

\* Lock can be taken: no reader holds the mutex
CanLock == Readers = {}
\* RLock blocks while a Lock call is waiting
CanRLock == waiting = {}

CreateAlert(ticker, condition, threshold, webhookURL) ==
    /\ CanLock
    /\ waiting = {}
    /\ LET alert == NewAlert(ticker, condition, threshold, webhookURL, now)
           id == alert.ID
       IN  /\ alerts' = (id :> alert) @@ alerts
           /\ webhookCalls' = (id :> 0) @@ webhookCalls
           /\ transitions' = (id :> 0) @@ transitions
           /\ delivery' = (id :> NotSent) @@ delivery
           /\ last' = [op |-> "create", id |-> id, alert |-> alert,
                       ticker |-> ticker, condition |-> condition,
                       threshold |-> threshold, webhookURL |-> webhookURL,
                       replaced |-> IF id \in DOMAIN alerts THEN {alerts[id]} ELSE {}]
    /\ failures' = failures \ {AlertID(ticker, condition, threshold)}
    /\ UNCHANGED <<now, pc, remaining, cur, price, waiting, checker, cacheVars, batchVars, mainVars>>

GetAlert(id) ==
    /\ CanRLock
    /\ last' = IF id \in DOMAIN alerts
               THEN [op |-> "get", id |-> id, found |-> TRUE, alert |-> alerts[id]]
               ELSE [op |-> "get", id |-> id, found |-> FALSE]
    /\ UNCHANGED <<now, alertVars, cacheVars, batchVars, mainVars>>

ListAlerts ==
    /\ CanRLock
    /\ last' = [op |-> "list", alerts |-> {alerts[id] : id \in DOMAIN alerts}]
    /\ UNCHANGED <<now, alertVars, cacheVars, batchVars, mainVars>>

\* a delete that removes nothing
Without_Nothing(f, k) == f

\* delete(s.alerts, alertID)
Without(f, k) == [x \in DOMAIN f \ {k} |-> f[x]]

\* DeleteAlert is called while passes hold the read lock: the call blocks in
\* alertsMutex.Lock()
DeleteBlocked(id) ==
    /\ ~CanLock
    /\ waiting = {}
    /\ waiting' = {[id |-> id, evaluating |-> \E p \in Passes : cur[p] = id]}
    /\ last' = [op |-> "step"]
    /\ UNCHANGED <<now, alerts, pc, remaining, cur, price, webhookCalls, transitions,
                   delivery, checker, failures, cacheVars, batchVars, mainVars>>

\* DeleteAlert from the moment it holds the lock; a blocked call goes first
DeleteAlert(id) ==
    /\ CanLock
    /\ \A w \in waiting : w.id = id
    /\ IF id \in DOMAIN alerts
       THEN /\ alerts' = Without(alerts, id)
            /\ webhookCalls' = Without(webhookCalls, id)
            /\ transitions' = Without(transitions, id)
            /\ delivery' = Without(delivery, id)
            /\ last' = [op |-> "delete", id |-> id, found |-> TRUE,
                        blocked |-> waiting # {},
                        raced |-> \E w \in waiting : w.evaluating,
                        alert |-> alerts[id]]
       ELSE /\ UNCHANGED <<alerts, webhookCalls, transitions, delivery>>
            /\ last' = [op |-> "delete", id |-> id, found |-> FALSE,
                        blocked |-> waiting # {}, raced |-> FALSE]
    /\ waiting' = {}
    /\ failures' = failures \ {id}
    /\ UNCHANGED <<now, pc, remaining, cur, price, checker, cacheVars, batchVars, mainVars>>

\* the comparisons made non-strict
Triggered_NonStrict(condition, p, threshold) ==
    CASE condition = ConditionAbove -> p >= threshold
      [] condition = ConditionBelow -> p <= threshold
      [] OTHER -> FALSE

\* the switch on alert.Condition
Triggered(condition, p, threshold) ==
    CASE condition = ConditionAbove -> p > threshold
      [] condition = ConditionBelow -> p < threshold
      [] OTHER -> FALSE

\* the Active test left out
Skips_Never(alert) == FALSE

\* if !alert.Active { continue }
Skips(alert) == ~alert.Active

\* CheckAlerts up to the range statement: RLock, start of the iteration
BeginPass(p) ==
    /\ pc[p] = "idle"
    /\ CanRLock
    /\ pc' = [pc EXCEPT ![p] = "loop"]
    /\ remaining' = [remaining EXCEPT ![p] = DOMAIN alerts]
    /\ last' = [op |-> "step"]
    /\ UNCHANGED <<now, alerts, cur, price, webhookCalls, transitions, delivery, waiting, failures, cacheVars, batchVars, mainVars>>

\* a CheckAlerts call made by a caller other than StartAlertChecker
CheckBegin(p) == BeginPass(p) /\ UNCHANGED checker

\* the next iteration: the Active test and the call of FetchPrice
CheckNext(p) ==
    /\ pc[p] = "loop"
    /\ \E id \in remaining[p] :
        /\ remaining' = [remaining EXCEPT ![p] = @ \ {id}]
        /\ IF Skips(alerts[id])
           THEN /\ UNCHANGED <<pc, cur>>
                /\ last' = [op |-> "skip", pass |-> p, id |-> id]
           ELSE /\ pc' = [pc EXCEPT ![p] = "fetching"]
                /\ cur' = [cur EXCEPT ![p] = id]
                /\ last' = [op |-> "step"]
    /\ UNCHANGED <<now, alerts, price, webhookCalls, transitions, delivery, waiting, checker, failures, cacheVars, batchVars, mainVars>>

\* the pass returns the error of FetchPrice
OnFetchError_Return == "idle"

\* if err != nil { log; continue }
OnFetchError == "loop"

\* FetchPrice returns: the error branch, or the trigger decision
FetchReturns(p) ==
    /\ pc[p] = "fetching"
    /\ \E r \in {Fetched(q) : q \in Prices} \cup {FetchFailed} :
        LET alert == alerts[cur[p]]
            triggered == ~r.err /\ Triggered(alert.Condition, r.price, alert.Threshold)
        IN  /\ pc' = [pc EXCEPT ![p] = IF r.err THEN OnFetchError
                                       ELSE IF triggered THEN "notify" ELSE "loop"]
            /\ price' = [price EXCEPT ![p] = IF triggered THEN r.price ELSE 0]
            /\ cur' = [cur EXCEPT ![p] = IF triggered THEN @ ELSE ""]
            /\ last' = [op |-> "fetched", pass |-> p, id |-> cur[p], result |-> r,
                        triggered |-> triggered]
    /\ UNCHANGED <<now, alerts, remaining, webhookCalls, transitions, delivery, waiting, checker, cacheVars, batchVars, mainVars>>

\* the step of a pass in which FetchPrice returns
CheckFetched(p) == FetchReturns(p) /\ UNCHANGED failures

\* the same step, the alerts whose fetch failed being recorded
CheckFetchedNoted(p) ==
    /\ FetchReturns(p)
    /\ failures' = IF last'.result.err THEN failures \cup {cur[p]} ELSE failures \ {cur[p]}

\* a sendWebhook that posts whatever the URL
WebhookOutcomes_AlwaysPosts(alert) == {"ok", "transport", "status"}

\* what sendWebhook may return: nil without a call when the URL is empty;
\* otherwise nil, the error of httpClient.Do, or the error of a non-2xx status
WebhookOutcomes(alert) ==
    IF alert.WebhookURL = "" THEN {"none"} ELSE {"ok", "transport", "status"}

\* the pass gives up on the alert when the webhook failed
AfterWebhook_AbortOnError(sent) ==
    IF sent \in {"transport", "status"} THEN "loop" ELSE "mark"

\* if err := s.sendWebhook(alert, price); err != nil { log }: the pass goes on
AfterWebhook(sent) == "mark"

\* sendWebhook, whose error CheckAlerts only logs
CheckNotify(p) ==
    /\ pc[p] = "notify"
    /\ \E sent \in WebhookOutcomes(alerts[cur[p]]) :
         /\ last' = [op |-> "webhook", pass |-> p, id |-> cur[p],
                     posted |-> sent # "none", price |-> price[p],
                     err |-> sent \in {"transport", "status"}]
         /\ delivery' = [delivery EXCEPT ![cur[p]] = sent]
         /\ pc' = [pc EXCEPT ![p] = AfterWebhook(sent)]
    /\ webhookCalls' = [webhookCalls EXCEPT ![cur[p]] = @ + 1]
    /\ UNCHANGED <<now, alerts, remaining, cur, price, transitions, waiting, checker, failures, cacheVars, batchVars, mainVars>>

\* the assignment of Active left out
Marked_StaysActive(alert, t) == [alert EXCEPT !.TriggeredAt = t]

\* alert.TriggeredAt = &now; alert.Active = false
Marked(alert, t) == [alert EXCEPT !.TriggeredAt = t, !.Active = FALSE]

\* the two assignments that mark the alert as triggered
CheckMark(p) ==
    /\ pc[p] = "mark"
    /\ alerts' = [alerts EXCEPT ![cur[p]] = Marked(@, now)]
    /\ transitions' = [transitions EXCEPT ![cur[p]] = @ + 1]
    /\ pc' = [pc EXCEPT ![p] = "loop"]
    /\ price' = [price EXCEPT ![p] = 0]
    /\ cur' = [cur EXCEPT ![p] = ""]
    /\ last' = [op |-> "step"]
    /\ UNCHANGED <<now, remaining, webhookCalls, delivery, waiting, checker, failures, cacheVars, batchVars, mainVars>>

\* alert.TriggeredAt = &now, as a step of its own: the pass holds the read
\* lock only, which GetAlert and ListAlerts may take at the same time
AssignTriggeredAt(p) ==
    /\ pc[p] = "mark"
    /\ alerts' = [alerts EXCEPT ![cur[p]] = Marked_StaysActive(@, now)]
    /\ transitions' = [transitions EXCEPT ![cur[p]] = @ + 1]
    /\ pc' = [pc EXCEPT ![p] = "deactivate"]
    /\ last' = [op |-> "step"]
    /\ UNCHANGED <<now, remaining, cur, price, webhookCalls, delivery, waiting, checker, failures, cacheVars, batchVars, mainVars>>

\* alert.Active = false, the statement that follows
AssignActive(p) ==
    /\ pc[p] = "deactivate"
    /\ alerts' = [alerts EXCEPT ![cur[p]].Active = FALSE]
    /\ pc' = [pc EXCEPT ![p] = "loop"]
    /\ price' = [price EXCEPT ![p] = 0]
    /\ cur' = [cur EXCEPT ![p] = ""]
    /\ last' = [op |-> "step"]
    /\ UNCHANGED <<now, remaining, webhookCalls, transitions, delivery, waiting, checker, failures, cacheVars, batchVars, mainVars>>

\* the range is exhausted: RUnlock, return nil
CheckEnd(p) ==
    /\ pc[p] = "loop"
    /\ remaining[p] = {}
    /\ pc' = [pc EXCEPT ![p] = "idle"]
    /\ last' = [op |-> "checked", pass |-> p, err |-> FALSE]
    /\ UNCHANGED <<now, alerts, remaining, cur, price, webhookCalls, transitions, delivery, waiting, checker, failures, cacheVars, batchVars, mainVars>>

CheckAlerts(p) ==
    \/ CheckBegin(p)
    \/ CheckNext(p)
    \/ CheckFetched(p)
    \/ CheckNotify(p)
    \/ CheckMark(p)
    \/ CheckEnd(p)

\* the steps of a pass after its first
PassSteps(p) ==
    \/ CheckNext(p)
    \/ CheckFetched(p)
    \/ CheckNotify(p)
    \/ CheckMark(p)
    \/ CheckEnd(p)

\* a ticker that has a tick ready as soon as it is made
CheckerStarted_TickReady ==
    [returned |-> FALSE, cancelled |-> FALSE, tick |-> TRUE, due |-> FALSE, started |-> 0]

\* StartAlertChecker before its first select: the ticker has not fired, the
\* context is not cancelled.  due and started record, for the cancellation,
\* whether a tick was waiting in ticker.C when cancel() was called and how
\* many passes the loop has started since.
CheckerStarted ==
    [returned |-> FALSE, cancelled |-> FALSE, tick |-> FALSE, due |-> FALSE, started |-> 0]

\* the pass that StartAlertChecker runs
CheckerPass == 1

\* the goroutine is blocked in, or about to enter, the select statement
AtSelect == ~checker.returned /\ pc[CheckerPass] = "idle"

\* the interval has elapsed: the ticker sends on ticker.C, whose buffer holds
\* one tick; a tick that finds the buffer full is dropped
TickerFires ==
    /\ ~checker.returned
    /\ ~checker.tick
    /\ checker' = [checker EXCEPT !.tick = TRUE]
    /\ last' = [op |-> "step"]
    /\ UNCHANGED <<now, alerts, pc, remaining, cur, price, webhookCalls, transitions,
                   delivery, waiting, failures, cacheVars, batchVars, mainVars>>

\* main calls cancel()
Cancel ==
    /\ ~checker.cancelled
    /\ checker' = [checker EXCEPT !.cancelled = TRUE, !.due = checker.tick]
    /\ last' = [op |-> "cancel"]
    /\ UNCHANGED <<now, alerts, pc, remaining, cur, price, webhookCalls, transitions,
                   delivery, waiting, failures, cacheVars, batchVars, mainVars>>

\* case <-ticker.C: the select takes the tick, also when ctx.Done() is ready
\* too, and CheckAlerts begins
SelectTick ==
    /\ AtSelect
    /\ checker.tick
    /\ checker.cancelled => checker.started < MaxStarted
    /\ checker' = [checker EXCEPT !.tick = FALSE,
                                   !.started = IF checker.cancelled THEN @ + 1 ELSE @]
    /\ BeginPass(CheckerPass)

\* case <-ctx.Done(): return, and the deferred ticker.Stop()
SelectDone ==
    /\ AtSelect
    /\ checker.cancelled
    /\ checker' = [checker EXCEPT !.returned = TRUE, !.tick = FALSE]
    /\ last' = [op |-> "stopped"]
    /\ UNCHANGED <<now, alerts, pc, remaining, cur, price, webhookCalls, transitions,
                   delivery, waiting, failures, cacheVars, batchVars, mainVars>>

StartAlertChecker ==
    \/ TickerFires
    \/ SelectTick
    \/ PassSteps(CheckerPass)
    \/ SelectDone

AlertIDs == {AlertID(t, c, th) : t \in AlertTickers, c \in Conditions, th \in Thresholds}

AlertCalls ==
    \/ \E t \in AlertTickers, c \in Conditions, th \in Thresholds, u \in WebhookURLs :
            CreateAlert(t, c, th, u)
    \/ \E id \in AlertIDs : GetAlert(id)
    \/ ListAlerts
    \/ \E id \in AlertIDs : DeleteAlert(id)
    \/ \E id \in DOMAIN alerts : DeleteBlocked(id)

-----------------------------------------------------------------------------
(* AlphaVantageService: the cache *)

CacheTickers == {"AAPL", "MSFT"}
CachePrices == {150000, 151000}
Dates == {"2024-01-02"}
Histories == {<<>>, <<"2024-01-01", "2024-01-02">>}

\* fmt.Sprintf("history_%s_%s_%s", ticker, fromDate, toDate)
HistoryKey(ticker, fromDate, toDate) ==
    "history_" \o ticker \o "_" \o fromDate \o "_" \o toDate

HistoryKeys == {HistoryKey("AAPL", "", d) : d \in Dates}
CacheKeys == CacheTickers \cup HistoryKeys

\* the comparison taken as "not before"
After_OrEqual(t, u) == t >= u

\* t.After(u)
After(t, u) == t > u

PriceEntry(p, t) == [price |-> p, history |-> <<>>, expiry |-> t + cacheTTL]
HistoryEntry(h, t) == [price |-> 0, history |-> h, expiry |-> t + cacheTTL]

\* a cache that never has the key
getCachedPrice_Miss(key) == [found |-> FALSE, price |-> 0]

\* getCachedPrice
getCachedPrice(key) ==
    IF key \notin DOMAIN cache THEN [found |-> FALSE, price |-> 0]
    ELSE IF After(now, cache[key].expiry) THEN [found |-> FALSE, price |-> 0]
    ELSE [found |-> TRUE, price |-> cache[key].price]

\* getCachedHistory
getCachedHistory(key) ==
    IF key \notin DOMAIN cache THEN [found |-> FALSE, history |-> <<>>]
    ELSE IF After(now, cache[key].expiry) THEN [found |-> FALSE, history |-> <<>>]
    ELSE [found |-> TRUE, history |-> cache[key].history]

\* a sweep that removes nothing
evictExpired_Nothing(c, t) == c

\* evictExpired
evictExpired(c, t) == [k \in {x \in DOMAIN c : ~After(t, c[x].expiry)} |-> c[k]]

\* the orders in which a range statement may visit the keys of a map
Orders(S) ==
    {o \in [1..Cardinality(S) -> S] : \A i, j \in 1..Cardinality(S) : i # j => o[i] # o[j]}

Swap(e, i, j) == [e EXCEPT ![i] = e[j], ![j] = e[i]]

RECURSIVE SortInner(_, _, _)
SortInner(e, i, j) ==
    IF j > Len(e) THEN e
    ELSE SortInner(IF After(e[i].expiry, e[j].expiry) THEN Swap(e, i, j) ELSE e, i, j + 1)

RECURSIVE SortOuter(_, _)
SortOuter(e, i) ==
    IF i > Len(e) THEN e ELSE SortOuter(SortInner(e, i, i + 1), i + 1)

\* the entries left in the order of the range statement
SortByExpiry_Unsorted(e) == e

\* the two loops that sort entries by expiry, oldest first
SortByExpiry(e) == SortOuter(e, 1)

EvictDivisor == 10

\* one entry removed, whatever the size
NumToRemove_One(n) == 1

\* numToRemove
NumToRemove(n) == IF n \div EvictDivisor < 1 THEN 1 ELSE n \div EvictDivisor

\* evictOldest, the range statement visiting the keys in the given order
evictOldest(c, order) ==
    IF Cardinality(DOMAIN c) = 0 THEN c
    ELSE LET entries == SortByExpiry([i \in 1..Len(order) |->
                            [ticker |-> order[i], expiry |-> c[order[i]].expiry]])
             removed == {entries[i].ticker : i \in 1..NumToRemove(Len(entries))}
         IN  [k \in DOMAIN c \ removed |-> c[k]]

\* if len(s.cache) >= s.maxCacheSize
AtCapacity(c) == Cardinality(DOMAIN c) >= maxCacheSize

\* the body of setCachedPrice and of setCachedHistory
Stored(key, entry, order) ==
    LET swept == evictExpired(cache, now)
        room == IF AtCapacity(swept) THEN evictOldest(swept, order) ELSE swept
    IN  (key :> entry) @@ room

\* an error return that stores the zero value it returns
AfterFailure_ZeroStored(c, key) == (key :> PriceEntry(0, now)) @@ c

\* the cache after a return with an error: every such return of FetchPrice
\* and of FetchPriceHistory comes before the call of the setter
AfterFailure(c, key) == c

\* the keys that the evictOldest call of a set removes
Evicted(order) ==
    LET swept == evictExpired(cache, now)
    IN  IF AtCapacity(swept) THEN DOMAIN swept \ DOMAIN evictOldest(swept, order) ELSE {}

\* the keys that the evictExpired call of a set removes
Swept == DOMAIN cache \ DOMAIN evictExpired(cache, now)

\* the visiting orders that matter to a set: those of evictOldest, when it runs
EvictOrders ==
    LET swept == evictExpired(cache, now)
    IN  IF AtCapacity(swept) THEN Orders(DOMAIN swept) ELSE {<<>>}

setCachedPrice(ticker, p) ==
    /\ \E order \in EvictOrders :
         /\ cache' = Stored(ticker, PriceEntry(p, now), order)
         /\ last' = [op |-> "setPrice", key |-> ticker, price |-> p,
                     swept |-> Swept, evicted |-> Evicted(order)]
    /\ putAt' = (ticker :> now) @@ putAt
    /\ UNCHANGED <<now, cacheTTL, maxCacheSize, cacheMutex, callers, alertVars, batchVars, mainVars>>

setCachedHistory(key, h) ==
    /\ \E order \in EvictOrders :
         /\ cache' = Stored(key, HistoryEntry(h, now), order)
         /\ last' = [op |-> "setHistory", key |-> key, history |-> h,
                     swept |-> Swept, evicted |-> Evicted(order)]
    /\ putAt' = (key :> now) @@ putAt
    /\ UNCHANGED <<now, cacheTTL, maxCacheSize, cacheMutex, callers, alertVars, batchVars, mainVars>>

ReadPrice(ticker) ==
    /\ last' = [op |-> "getPrice", key |-> ticker, got |-> getCachedPrice(ticker)]
    /\ UNCHANGED <<now, cacheVars, alertVars, batchVars, mainVars>>

ReadHistory(key) ==
    /\ last' = [op |-> "getHistory", key |-> key, got |-> getCachedHistory(key)]
    /\ UNCHANGED <<now, cacheVars, alertVars, batchVars, mainVars>>

\* a clear that drops the expired entries only
ClearCache_ExpiredOnly ==
    /\ cache' = evictExpired(cache, now)
    /\ last' = [op |-> "clear", dropped |-> DOMAIN cache]
    /\ UNCHANGED <<now, cacheTTL, maxCacheSize, cacheMutex, callers, putAt, alertVars, batchVars, mainVars>>

\* s.cache = make(map[string]cacheEntry)
ClearCache ==
    /\ cache' = <<>>
    /\ last' = [op |-> "clear", dropped |-> DOMAIN cache]
    /\ UNCHANGED <<now, cacheTTL, maxCacheSize, cacheMutex, callers, putAt, alertVars, batchVars, mainVars>>

CacheTick == Tick /\ UNCHANGED <<alertVars, cacheVars, batchVars, mainVars>>

-----------------------------------------------------------------------------
(* AlphaVantageService: cacheMutex, with the cache methods called by
   goroutines running side by side *)

CacheCallers == {1, 2, 3}

NoCaller == 0
MutexFree == [writer |-> NoCaller, readers |-> {}]
CallerIdle == [pos |-> "idle"]

\* the keys and the values the goroutines call the cache with
CallKeys == {"AAPL"} \cup HistoryKeys
CallEntry(key, t) ==
    IF key \in HistoryKeys THEN HistoryEntry(<<"2024-01-01", "2024-01-02">>, t)
    ELSE PriceEntry(150000, t)

\* a mutex that lets every caller in
CanEnter_Always(m, exclusive) == TRUE

\* sync.RWMutex: RLock returns when no goroutine holds Lock; Lock returns
\* when no goroutine holds Lock or RLock
CanEnter(m, exclusive) ==
    IF exclusive THEN m.writer = NoCaller /\ m.readers = {}
    ELSE m.writer = NoCaller

CallerStep(t, call) ==
    /\ callers' = [callers EXCEPT ![t] = call]
    /\ last' = [op |-> "step"]
    /\ UNCHANGED <<now, cacheTTL, maxCacheSize, alertVars, batchVars, mainVars>>

\* a goroutine calls getCachedPrice or getCachedHistory and reaches RLock
CallGet(t, key) ==
    /\ callers[t].pos = "idle"
    /\ CallerStep(t, [pos |-> "rlock", call |-> "get", key |-> key])
    /\ UNCHANGED <<cache, putAt, cacheMutex>>

\* a goroutine calls setCachedPrice or setCachedHistory and reaches Lock
CallSet(t, key) ==
    /\ callers[t].pos = "idle"
    /\ CallerStep(t, [pos |-> "lock", call |-> "set", key |-> key])
    /\ UNCHANGED <<cache, putAt, cacheMutex>>

\* a goroutine calls ClearCache and reaches Lock
CallClear(t) ==
    /\ callers[t].pos = "idle"
    /\ CallerStep(t, [pos |-> "lock", call |-> "clear", key |-> ""])
    /\ UNCHANGED <<cache, putAt, cacheMutex>>

\* s.cacheMutex.RLock() returns
RLockReturns(t) ==
    /\ callers[t].pos = "rlock"
    /\ CanEnter(cacheMutex, FALSE)
    /\ cacheMutex' = [cacheMutex EXCEPT !.readers = @ \cup {t}]
    /\ CallerStep(t, [callers[t] EXCEPT !.pos = "read"])
    /\ UNCHANGED <<cache, putAt>>

\* the body of the getter: the map lookup and the expiry test
ReadEntry(t) ==
    /\ callers[t].pos = "read"
    /\ callers' = [callers EXCEPT ![t] = [@ EXCEPT !.pos = "runlock"]]
    /\ last' = [op |-> "read", caller |-> t, key |-> callers[t].key,
                found |-> IF callers[t].key \in HistoryKeys
                          THEN getCachedHistory(callers[t].key).found
                          ELSE getCachedPrice(callers[t].key).found]
    /\ UNCHANGED <<now, cache, putAt, cacheMutex, cacheTTL, maxCacheSize, alertVars, batchVars, mainVars>>

\* the deferred s.cacheMutex.RUnlock(), and the return
RUnlock(t) ==
    /\ callers[t].pos = "runlock"
    /\ cacheMutex' = [cacheMutex EXCEPT !.readers = @ \ {t}]
    /\ CallerStep(t, CallerIdle)
    /\ UNCHANGED <<cache, putAt>>

\* s.cacheMutex.Lock() returns
LockReturns(t) ==
    /\ callers[t].pos = "lock"
    /\ CanEnter(cacheMutex, TRUE)
    /\ cacheMutex' = [cacheMutex EXCEPT !.writer = t]
    /\ CallerStep(t, [callers[t] EXCEPT
                        !.pos = IF callers[t].call = "clear" THEN "clearing" ELSE "sweep"])
    /\ UNCHANGED <<cache, putAt>>

\* s.evictExpired()
SweepStep(t) ==
    /\ callers[t].pos = "sweep"
    /\ cache' = evictExpired(cache, now)
    /\ CallerStep(t, [callers[t] EXCEPT !.pos = "evict"])
    /\ UNCHANGED <<putAt, cacheMutex>>

\* if len(s.cache) >= s.maxCacheSize { s.evictOldest() }
EvictStep(t) ==
    /\ callers[t].pos = "evict"
    /\ IF AtCapacity(cache)
       THEN \E order \in Orders(DOMAIN cache) : cache' = evictOldest(cache, order)
       ELSE cache' = cache
    /\ CallerStep(t, [callers[t] EXCEPT !.pos = "insert"])
    /\ UNCHANGED <<putAt, cacheMutex>>

\* s.cache[key] = cacheEntry{...}
InsertStep(t) ==
    /\ callers[t].pos = "insert"
    /\ cache' = (callers[t].key :> CallEntry(callers[t].key, now)) @@ cache
    /\ putAt' = (callers[t].key :> now) @@ putAt
    /\ CallerStep(t, [callers[t] EXCEPT !.pos = "unlock"])
    /\ UNCHANGED cacheMutex

\* s.cache = make(map[string]cacheEntry)
ClearStep(t) ==
    /\ callers[t].pos = "clearing"
    /\ cache' = <<>>
    /\ CallerStep(t, [callers[t] EXCEPT !.pos = "unlock"])
    /\ UNCHANGED <<putAt, cacheMutex>>

\* the deferred s.cacheMutex.Unlock(), and the return
Unlock(t) ==
    /\ callers[t].pos = "unlock"
    /\ cacheMutex' = [cacheMutex EXCEPT !.writer = NoCaller]
    /\ CallerStep(t, CallerIdle)
    /\ UNCHANGED <<cache, putAt>>

CacheCalls(t) ==
    \/ \E key \in CallKeys : CallGet(t, key)
    \/ \E key \in CallKeys : CallSet(t, key)
    \/ CallClear(t)
    \/ RLockReturns(t)
    \/ ReadEntry(t)
    \/ RUnlock(t)
    \/ LockReturns(t)
    \/ SweepStep(t)
    \/ EvictStep(t)
    \/ InsertStep(t)
    \/ ClearStep(t)
    \/ Unlock(t)

-----------------------------------------------------------------------------
(* AlphaVantageService.FetchPriceHistory *)

\* the dates of the upstream time series, and their order as strings
DayOf == ("2024-01-01" :> 1) @@ ("2024-01-02" :> 2)
SeriesDates == DOMAIN DayOf
FromDates == {"", "2024-01-02"}
ToDates == {"", "2024-01-01"}

\* date < other, of two date strings
DateBefore(date, other) == DayOf[date] < DayOf[other]

\* the two range tests of the loop body
InRange(date, fromDate, toDate) ==
    /\ ~(fromDate # "" /\ DateBefore(date, fromDate))
    /\ ~(toDate # "" /\ DateBefore(toDate, date))

\* the loop over timeSeries, visited in the given order: the dates appended
RECURSIVE Collect(_, _, _)
Collect(order, fromDate, toDate) ==
    IF order = <<>> THEN <<>>
    ELSE LET rest == Collect(Tail(order), fromDate, toDate)
         IN  IF InRange(Head(order), fromDate, toDate) THEN <<Head(order)>> \o rest ELSE rest

\* the loop that swaps historicalData[i] and historicalData[j] from both ends
Reverse(h) == [i \in 1..Len(h) |-> h[Len(h) + 1 - i]]

\* FetchPriceHistory: the cached value, or an upstream error, or the points
\* of the upstream series collected in map order, reversed and cached
FetchPriceHistory(ticker, fromDate, toDate) ==
    LET cacheKey == HistoryKey(ticker, fromDate, toDate)
        cached == getCachedHistory(cacheKey)
    IN  IF cached.found
        THEN /\ last' = [op |-> "fetchHistory", key |-> cacheKey, err |-> FALSE,
                         upstream |-> FALSE, history |-> cached.history]
             /\ UNCHANGED <<now, cacheVars, alertVars, batchVars, mainVars>>
        ELSE \/ /\ last' = [op |-> "fetchHistory", key |-> cacheKey, err |-> TRUE,
                            upstream |-> TRUE, history |-> <<>>]
                /\ cache' = AfterFailure(cache, cacheKey)
                /\ UNCHANGED <<now, cacheTTL, maxCacheSize, putAt, cacheMutex, callers, alertVars, batchVars, mainVars>>
             \/ \E timeSeries \in SUBSET SeriesDates :
                 \E order \in Orders(timeSeries) :
                   LET historicalData == Reverse(Collect(order, fromDate, toDate))
                   IN  /\ \E evict \in EvictOrders :
                            cache' = Stored(cacheKey, HistoryEntry(historicalData, now), evict)
                       /\ putAt' = (cacheKey :> now) @@ putAt
                       /\ last' = [op |-> "fetchHistory", key |-> cacheKey, err |-> FALSE,
                                   upstream |-> TRUE, history |-> historicalData]
                       /\ UNCHANGED <<now, cacheTTL, maxCacheSize, cacheMutex, callers, alertVars, batchVars, mainVars>>

-----------------------------------------------------------------------------
(* AlphaVantageService.FetchPrices and the handler that calls it *)

BatchSymbols == {"AAPL", "MSFT", "INVALID"}

\* the prices the quote source may report for a ticker; none for an unknown one
Quotes(t) ==
    CASE t = "AAPL" -> {150000, 151000}
      [] t = "MSFT" -> {300000}
      [] OTHER -> {}

\* what s.FetchPrice(ctx, t) may return
FetchOutcomes(t) == {Fetched(q) : q \in Quotes(t)} \cup {FetchFailed}

\* FetchPrice on the service: the cached price when getCachedPrice finds one;
\* otherwise the upstream call, whose price is stored by setCachedPrice
FetchPrice(ticker) ==
    LET cached == getCachedPrice(ticker)
    IN  IF cached.found
        THEN /\ last' = [op |-> "fetchPrice", key |-> ticker, err |-> FALSE,
                         upstream |-> FALSE, price |-> cached.price]
             /\ UNCHANGED <<now, cacheVars, alertVars, batchVars, mainVars>>
        ELSE \E r \in FetchOutcomes(ticker) :
               IF r.err
               THEN /\ last' = [op |-> "fetchPrice", key |-> ticker, err |-> TRUE,
                                upstream |-> TRUE, price |-> 0]
                    /\ cache' = AfterFailure(cache, ticker)
                    /\ UNCHANGED <<now, cacheTTL, maxCacheSize, putAt, cacheMutex, callers, alertVars, batchVars, mainVars>>
               ELSE /\ \E order \in EvictOrders :
                         cache' = Stored(ticker, PriceEntry(r.price, now), order)
                    /\ putAt' = (ticker :> now) @@ putAt
                    /\ last' = [op |-> "fetchPrice", key |-> ticker, err |-> FALSE,
                                upstream |-> TRUE, price |-> r.price]
                    /\ UNCHANGED <<now, cacheTTL, maxCacheSize, cacheMutex, callers, alertVars, batchVars, mainVars>>

\* getCachedPrice on the service that main built for the alert service
getAlertCachedPrice(key) ==
    IF key \notin DOMAIN alertCache THEN [found |-> FALSE, price |-> 0]
    ELSE IF After(now, alertCache[key].expiry) THEN [found |-> FALSE, price |-> 0]
    ELSE [found |-> TRUE, price |-> alertCache[key].price]

\* s.priceSvc.FetchPrice of CheckAlerts: FetchPrice on the second service that
\* main builds, NewAlertService(NewPriceService()), with a cache of its own
PriceSvcFetchPrice(ticker) ==
    LET cached == getAlertCachedPrice(ticker)
    IN  IF cached.found
        THEN /\ last' = [op |-> "priceSvc.fetchPrice", key |-> ticker, err |-> FALSE,
                         upstream |-> FALSE, price |-> cached.price]
             /\ UNCHANGED <<now, cacheVars, alertVars, batchVars, mainVars>>
        ELSE \E r \in FetchOutcomes(ticker) :
               IF r.err
               THEN /\ last' = [op |-> "priceSvc.fetchPrice", key |-> ticker, err |-> TRUE,
                                upstream |-> TRUE, price |-> 0]
                    /\ UNCHANGED <<now, cacheVars, alertVars, batchVars, mainVars>>
               ELSE /\ LET swept == evictExpired(alertCache, now)
                       IN  \E order \in IF AtCapacity(swept) THEN Orders(DOMAIN swept)
                                                             ELSE {<<>>} :
                             alertCache' = (ticker :> PriceEntry(r.price, now)) @@
                                 (IF AtCapacity(swept) THEN evictOldest(swept, order)
                                                       ELSE swept)
                    /\ last' = [op |-> "priceSvc.fetchPrice", key |-> ticker, err |-> FALSE,
                                upstream |-> TRUE, price |-> r.price]
                    /\ UNCHANGED <<now, cacheVars, alertVars, batchVars, peer>>

\* FetchPrice called by goroutine t: getCachedPrice, and on a miss the HTTP
\* request is sent; no lock is held while the request is in flight
FetchPriceCalled(t, ticker) ==
    /\ callers[t].pos = "idle"
    /\ LET cached == getCachedPrice(ticker)
       IN  IF cached.found
           THEN /\ last' = [op |-> "fetchPrice", key |-> ticker, err |-> FALSE,
                            upstream |-> FALSE, price |-> cached.price]
                /\ UNCHANGED callers
           ELSE /\ last' = [op |-> "step"]
                /\ callers' = [callers EXCEPT ![t] =
                                  [pos |-> "upstream", call |-> "fetch", key |-> ticker]]
    /\ UNCHANGED <<now, cache, cacheTTL, maxCacheSize, putAt, cacheMutex, alertVars, batchVars, mainVars>>

\* the HTTP request of goroutine t returns: an error is returned as it is, a
\* price is stored by setCachedPrice and returned
UpstreamReturns(t) ==
    /\ callers[t].pos = "upstream"
    /\ \E r \in FetchOutcomes(callers[t].key) :
         IF r.err
         THEN /\ last' = [op |-> "fetchPrice", key |-> callers[t].key, err |-> TRUE,
                          upstream |-> TRUE, price |-> 0]
              /\ UNCHANGED <<cache, putAt>>
         ELSE /\ \E order \in EvictOrders :
                   cache' = Stored(callers[t].key, PriceEntry(r.price, now), order)
              /\ putAt' = (callers[t].key :> now) @@ putAt
              /\ last' = [op |-> "fetchPrice", key |-> callers[t].key, err |-> FALSE,
                          upstream |-> TRUE, price |-> r.price]
    /\ callers' = [callers EXCEPT ![t] = CallerIdle]
    /\ UNCHANGED <<now, cacheTTL, maxCacheSize, cacheMutex, alertVars, batchVars, mainVars>>

SemaphoreCap == 5

Workers == 1..Len(tickers)

\* a channel that never fills
CanAcquire_Unbounded(n) == TRUE

\* semaphore <- struct{}{} can proceed
CanAcquire(n) == n < SemaphoreCap

\* semaphore <- struct{}{}
Acquire(w) ==
    /\ wpc[w] = "wait"
    /\ CanAcquire(semaphore)
    /\ semaphore' = semaphore + 1
    /\ wpc' = [wpc EXCEPT ![w] = "fetch"]
    /\ last' = [op |-> "step"]
    /\ UNCHANGED <<now, tickers, results, errors, outcome, batchRet, response, logging, mutexes, local, alertVars, cacheVars, mainVars>>

\* errors = append(errors, err), under errorsMutex
AppendError(errs, t) == Append(errs, t)

\* results[t] = price, under resultsMutex
SetResult(res, t, p) == (t :> p) @@ res

\* s.FetchPrice returns and the worker records what it returned
FetchAndRecord(w) ==
    /\ wpc[w] = "fetch"
    /\ \E r \in FetchOutcomes(tickers[w]) :
        /\ outcome' = [outcome EXCEPT ![w] = r]
        /\ IF r.err
           THEN /\ errors' = AppendError(errors, tickers[w])
                /\ UNCHANGED results
           ELSE /\ results' = SetResult(results, tickers[w], r.price)
                /\ UNCHANGED errors
        /\ last' = [op |-> "step"]
    /\ wpc' = [wpc EXCEPT ![w] = "release"]
    /\ UNCHANGED <<now, tickers, semaphore, batchRet, response, logging, mutexes, local, alertVars, cacheVars, mainVars>>

\* a worker that keeps its token when its FetchPrice failed
AfterRelease_KeptOnError(n, r) == IF r.err THEN n ELSE n - 1

\* defer func() { <-semaphore }(): it runs on the error return and on the
\* normal return alike
AfterRelease(n, r) == n - 1

\* the deferred <-semaphore and wg.Done()
Release(w) ==
    /\ wpc[w] = "release"
    /\ semaphore' = AfterRelease(semaphore, outcome[w])
    /\ wpc' = [wpc EXCEPT ![w] = "done"]
    /\ last' = [op |-> "step"]
    /\ UNCHANGED <<now, tickers, results, errors, outcome, batchRet, response, logging, mutexes, local, alertVars, cacheVars, mainVars>>

\* the worker's steps after s.FetchPrice, with the two mutexes

NoWorker == 0
MutexesFree == [results |-> NoWorker, errors |-> NoWorker]

\* the structure a worker updates: errors when its FetchPrice failed
Target(w) == IF outcome[w].err THEN "errors" ELSE "results"

\* a mutex that never makes a worker wait
MutexIsFree_Always(m, which) == TRUE

\* sync.Mutex: Lock returns when no goroutine holds the mutex
MutexIsFree(m, which) == m[which] = NoWorker

\* s.FetchPrice(ctx, t) returns
FetchDone(w) ==
    /\ wpc[w] = "fetch"
    /\ \E r \in FetchOutcomes(tickers[w]) : outcome' = [outcome EXCEPT ![w] = r]
    /\ wpc' = [wpc EXCEPT ![w] = "lock"]
    /\ last' = [op |-> "step"]
    /\ UNCHANGED <<now, tickers, semaphore, results, errors, batchRet, response, mutexes,
                   local, logging, alertVars, cacheVars, mainVars>>

\* errorsMutex.Lock() or resultsMutex.Lock() returns
MutexLock(w) ==
    /\ wpc[w] = "lock"
    /\ MutexIsFree(mutexes, Target(w))
    /\ mutexes' = [mutexes EXCEPT ![Target(w)] = w]
    /\ wpc' = [wpc EXCEPT ![w] = "read"]
    /\ last' = [op |-> "step"]
    /\ UNCHANGED <<now, tickers, semaphore, results, errors, outcome, batchRet, response,
                   local, logging, alertVars, cacheVars, mainVars>>

\* the update begins: the worker reads the slice, or the map
RecordRead(w) ==
    /\ wpc[w] = "read"
    /\ local' = (w :> IF outcome[w].err THEN errors ELSE results) @@ local
    /\ wpc' = [wpc EXCEPT ![w] = "write"]
    /\ last' = [op |-> "step"]
    /\ UNCHANGED <<now, tickers, semaphore, results, errors, outcome, batchRet, response,
                   mutexes, logging, alertVars, cacheVars, mainVars>>

\* the update ends: errors = append(errors, err), or results[t] = price
RecordWrite(w) ==
    /\ wpc[w] = "write"
    /\ IF outcome[w].err
       THEN /\ errors' = AppendError(local[w], tickers[w])
            /\ UNCHANGED results
       ELSE /\ results' = SetResult(local[w], tickers[w], outcome[w].price)
            /\ UNCHANGED errors
    /\ local' = Without(local, w)
    /\ wpc' = [wpc EXCEPT ![w] = "unlock"]
    /\ last' = [op |-> "step"]
    /\ UNCHANGED <<now, tickers, semaphore, outcome, batchRet, response, mutexes, logging,
                   alertVars, cacheVars, mainVars>>

\* errorsMutex.Unlock() or resultsMutex.Unlock()
MutexUnlock(w) ==
    /\ wpc[w] = "unlock"
    /\ mutexes' = [mutexes EXCEPT ![Target(w)] = NoWorker]
    /\ wpc' = [wpc EXCEPT ![w] = "release"]
    /\ last' = [op |-> "step"]
    /\ UNCHANGED <<now, tickers, semaphore, results, errors, outcome, batchRet, response,
                   local, logging, alertVars, cacheVars, mainVars>>

\* any error taken as the failure of the call
TotalFailure_AnyError(res, errs) == Len(errs) > 0

\* if len(results) == 0 && len(errors) > 0
TotalFailure(res, errs) == Cardinality(DOMAIN res) = 0 /\ Len(errs) > 0

\* what FetchPrices returns: (results, nil), or (nil, an error quoting errors)
Verdict(res, errs) ==
    IF TotalFailure(res, errs)
    THEN [prices |-> <<>>, failed |-> TRUE, reported |-> errs]
    ELSE [prices |-> res, failed |-> FALSE, reported |-> <<>>]

\* wg.Wait() is over: FetchPrices returns
BatchReturn ==
    /\ batchRet = None
    /\ \A w \in Workers : wpc[w] = "done"
    /\ batchRet' = Verdict(results, errors)
    /\ last' = [op |-> "fetchPrices"]
    /\ UNCHANGED <<now, tickers, wpc, semaphore, results, errors, outcome, response, logging, mutexes, local, alertVars, cacheVars, mainVars>>

\* A second FetchPrices call running on the same service.  Its semaphore is
\* the channel that the call makes for itself; of its workers the positions
\* are kept, not what they fetched.
PeerWorkers == 1..Len(peer.wpc)

PeerInFlight == Cardinality({w \in PeerWorkers : peer.wpc[w] = "fetch"})

PeerStep(w, from, to, tokens) ==
    /\ peer.wpc[w] = from
    /\ peer' = [wpc |-> [peer.wpc EXCEPT ![w] = to], semaphore |-> tokens]
    /\ last' = [op |-> "step"]
    /\ UNCHANGED <<now, alertCache, alertVars, cacheVars, batchVars>>

\* semaphore <- struct{}{} in a worker of the second call
PeerAcquire(w) ==
    /\ CanAcquire(peer.semaphore)
    /\ PeerStep(w, "wait", "fetch", peer.semaphore + 1)

\* s.FetchPrice returns in a worker of the second call
PeerFetchReturns(w) == PeerStep(w, "fetch", "release", peer.semaphore)

\* the deferred <-semaphore and wg.Done() in a worker of the second call
PeerRelease(w) == PeerStep(w, "release", "done", peer.semaphore - 1)

\* handleFetchPrices after its call of FetchPrices: an error becomes an HTTP
\* error, a map becomes a BatchPriceResponse
Respond ==
    /\ batchRet # None
    /\ response = None
    /\ Len(tickers) > 0
    /\ response' = IF batchRet.failed
                   THEN [status |-> 500, Prices |-> <<>>, Errors |-> <<>>]
                   ELSE [status |-> 200, Prices |-> batchRet.prices, Errors |-> <<>>]
    /\ last' = [op |-> "respond"]
    /\ UNCHANGED <<now, tickers, wpc, semaphore, results, errors, outcome, batchRet, logging, mutexes, local, alertVars, cacheVars, mainVars>>

priceMocks == ("AAPL" :> 150000) @@ ("MSFT" :> 300000) @@ ("GOOGL" :> 2800000)

\* price, ok := priceMocks[ticker]; an error when !ok
MockPriceFetcher(ticker) ==
    IF ticker \in DOMAIN priceMocks THEN Fetched(priceMocks[ticker]) ELSE FetchFailed

\* the loop of MockBatchPriceFetcher from ticker i on, and its return
RECURSIVE MockLoop(_, _, _, _)
MockLoop(list, i, res, errs) ==
    IF i > Len(list) THEN Verdict(res, errs)
    ELSE LET r == MockPriceFetcher(list[i])
         IN  IF r.err
             THEN MockLoop(list, i + 1, res, AppendError(errs, list[i]))
             ELSE MockLoop(list, i + 1, SetResult(res, list[i], r.price), errs)

MockBatchPriceFetcher(list) == MockLoop(list, 1, <<>>, <<>>)

RECURSIVE ListsOf(_)
ListsOf(n) ==
    IF n = 0 THEN {<<>>}
    ELSE LET shorter == ListsOf(n - 1)
         IN  shorter \cup {Append(l, t) : l \in {x \in shorter : Len(x) = n - 1}, t \in BatchSymbols}

LongList == [i \in 1..MaxTickers |-> IF i % 3 = 0 THEN "INVALID" ELSE IF i % 3 = 1 THEN "AAPL" ELSE "MSFT"]

BatchInputs == ListsOf(MaxShort) \cup {LongList}

-----------------------------------------------------------------------------
(* LoggingService, around any PriceService *)

LoggingIdle == [pos |-> "idle"]

Methods == {"FetchPrice", "FetchPrices", "FetchPriceHistory"}

\* the arguments the methods are called with
LoggingArgs(method) ==
    CASE method = "FetchPrice" -> BatchSymbols
      [] method = "FetchPrices" -> ListsOf(MaxShort)
      [] method = "FetchPriceHistory" ->
             {<<t, f, d>> : t \in {"AAPL", "INVALID"}, f \in FromDates, d \in ToDates}

\* the values a wrapped PriceService may return from a method
WrappedValues(method) ==
    CASE method = "FetchPrice" -> {0, 150000}
      [] method = "FetchPrices" -> {<<>>, priceMocks}
      [] method = "FetchPriceHistory" -> Histories

\* the errors it may return beside the value: nil, or an error
WrappedErrors == {"nil", "context canceled"}

\* what s.next.<method>(...) may return: any value with any error
WrappedReturns(method) ==
    {[value |-> v, err |-> e] : v \in WrappedValues(method), e \in WrappedErrors}

\* a method of LoggingService is called: the argument of the deferred
\* function, time.Now(), is evaluated
LoggingCall(method, arg) ==
    /\ logging.pos \in {"idle", "returned"}
    /\ logging' = [pos |-> "next", method |-> method, arg |-> arg, begin |-> now,
                   calls |-> 0, inner |-> None, outer |-> None, entry |-> None]
    /\ last' = [op |-> "step"]
    /\ UNCHANGED <<now, tickers, wpc, semaphore, results, errors, outcome, batchRet,
                   response, mutexes, local, alertVars, cacheVars, mainVars>>

\* return s.next.<method>(...): the wrapped service is called and its results
\* are assigned to the named results
LoggingNext ==
    /\ logging.pos = "next"
    /\ \E r \in WrappedReturns(logging.method) :
         logging' = [logging EXCEPT !.pos = "deferred", !.calls = @ + 1, !.inner = r,
                                    !.outer = r]
    /\ last' = [op |-> "step"]
    /\ UNCHANGED <<now, tickers, wpc, semaphore, results, errors, outcome, batchRet,
                   response, mutexes, local, alertVars, cacheVars, mainVars>>

\* a deferred function that swallows the error
AfterDeferred_SwallowsError(r) == [r EXCEPT !.err = "nil"]

\* the named results after the deferred function: it reads them for the log
\* entry and assigns none
AfterDeferred(r) == r

\* the deferred function runs and the method returns the named results
LoggingDeferred ==
    /\ logging.pos = "deferred"
    /\ logging' = [logging EXCEPT
                      !.pos = "returned",
                      !.outer = AfterDeferred(logging.outer),
                      !.entry = [took |-> now - logging.begin, err |-> logging.outer.err]]
    /\ last' = [op |-> "logged", method |-> logging.method]
    /\ UNCHANGED <<now, tickers, wpc, semaphore, results, errors, outcome, batchRet,
                   response, mutexes, local, alertVars, cacheVars, mainVars>>

LoggingService ==
    \/ \E m \in Methods : \E arg \in LoggingArgs(m) : LoggingCall(m, arg)
    \/ LoggingNext
    \/ LoggingDeferred

-----------------------------------------------------------------------------
(* Initial values of the parts *)

AlertInit ==
    /\ alerts = <<>>
    /\ pc = [p \in Passes |-> "idle"]
    /\ remaining = [p \in Passes |-> {}]
    /\ cur = [p \in Passes |-> ""]
    /\ price = [p \in Passes |-> 0]
    /\ webhookCalls = <<>>
    /\ transitions = <<>>
    /\ delivery = <<>>
    /\ waiting = {}
    /\ checker = CheckerStarted
    /\ failures = {}

CacheIdle ==
    /\ cache = <<>>
    /\ cacheTTL = 0
    /\ maxCacheSize = 0
    /\ putAt = <<>>
    /\ cacheMutex = MutexFree
    /\ callers = [t \in CacheCallers |-> CallerIdle]

BatchIdle ==
    /\ tickers = <<>>
    /\ wpc = <<>>
    /\ semaphore = 0
    /\ results = <<>>
    /\ errors = <<>>
    /\ outcome = <<>>
    /\ batchRet = None
    /\ response = None
    /\ mutexes = MutexesFree
    /\ local = <<>>
    /\ logging = LoggingIdle

MainIdle ==
    /\ alertCache = <<>>
    /\ peer = None

\* The registry with CheckAlerts passes running concurrently
Init ==
    /\ now = 0
    /\ last = None
    /\ AlertInit
    /\ MainIdle
    /\ CacheIdle
    /\ BatchIdle

Next ==
    \/ AlertCalls
    \/ \E p \in Passes : CheckAlerts(p)

Spec == Init /\ [][Next]_vars

\* The registry with one CheckAlerts pass at a time, as StartAlertChecker runs them
NextSeq ==
    \/ AlertCalls
    \/ \E p \in SeqPasses : CheckAlerts(p)

SpecSeq == Init /\ [][NextSeq]_vars

\* The registry with one pass at a time, each statement of the pass that
\* writes a field of an alert being a step
NextFields ==
    \/ AlertCalls
    \/ \E p \in SeqPasses :
         \/ CheckBegin(p)
         \/ CheckNext(p)
         \/ CheckFetched(p)
         \/ CheckNotify(p)
         \/ AssignTriggeredAt(p)
         \/ AssignActive(p)
         \/ CheckEnd(p)

SpecFields == Init /\ [][NextFields]_vars

\* The registry with one pass at a time, the failed fetches being recorded
NextRetry ==
    \/ AlertCalls
    \/ \E p \in SeqPasses :
         \/ CheckBegin(p)
         \/ CheckNext(p)
         \/ CheckFetchedNoted(p)
         \/ CheckNotify(p)
         \/ CheckMark(p)
         \/ CheckEnd(p)

SpecRetry == Init /\ [][NextRetry]_vars

\* The registry with the StartAlertChecker goroutine that main starts and cancels
NextChecker ==
    \/ AlertCalls
    \/ StartAlertChecker
    \/ Cancel

SpecChecker == Init /\ [][NextChecker]_vars

\* The cache of one AlphaVantageService, its TTL and capacity as constructed
InitCache ==
    /\ now = 0
    /\ last = None
    /\ AlertInit
    /\ MainIdle
    /\ BatchIdle
    /\ cache = <<>>
    /\ putAt = <<>>
    /\ cacheMutex = MutexFree
    /\ callers = [t \in CacheCallers |-> CallerIdle]
    /\ cacheTTL \in 0..MaxTTL
    /\ maxCacheSize \in 0..MaxCap

NextCache ==
    \/ \E t \in CacheTickers, p \in CachePrices : setCachedPrice(t, p)
    \/ \E k \in HistoryKeys, h \in Histories : setCachedHistory(k, h)
    \/ \E t \in CacheTickers : ReadPrice(t)
    \/ \E k \in HistoryKeys : ReadHistory(k)
    \/ ClearCache
    \/ CacheTick

SpecCache == InitCache /\ [][NextCache]_vars

\* The cache methods called by goroutines running side by side
InitLocked ==
    /\ now = 0
    /\ last = None
    /\ AlertInit
    /\ MainIdle
    /\ BatchIdle
    /\ cache = <<>>
    /\ putAt = <<>>
    /\ cacheMutex = MutexFree
    /\ callers = [t \in CacheCallers |-> CallerIdle]
    /\ cacheTTL = 1
    /\ maxCacheSize = MaxCap

NextLocked ==
    \/ \E t \in CacheCallers : CacheCalls(t)
    \/ CacheTick

SpecLocked == InitLocked /\ [][NextLocked]_vars

\* FetchPrice calls on one AlphaVantageService, with history entries stored
\* beside the prices
NextFetch ==
    \/ \E t \in CacheTickers : FetchPrice(t)
    \/ \E k \in HistoryKeys, h \in Histories : setCachedHistory(k, h)
    \/ ClearCache
    \/ CacheTick

SpecFetch == InitCache /\ [][NextFetch]_vars

\* Calls of the LoggingService methods, while time passes
NextLogging ==
    \/ LoggingService
    \/ CacheTick

SpecLogging == Init /\ [][NextLogging]_vars

\* the tickers that callers pass as they are: a symbol, a symbol with an
\* underscore at its end, and a string that reads like a history key
KeyTickers == {"AAPL", "history_AAPL__"}
KeyDates == {"", "2024-01-01"}

\* the FetchPriceHistory requests made: ticker, fromDate, toDate
KeyRequests ==
    {<<"AAPL", "", "">>, <<"AAPL", "", "2024-01-01">>}

\* FetchPrice and FetchPriceHistory calls on one AlphaVantageService, the
\* ticker being any string
InitKeys ==
    /\ now = 0
    /\ last = None
    /\ AlertInit
    /\ MainIdle
    /\ BatchIdle
    /\ cache = <<>>
    /\ putAt = <<>>
    /\ cacheMutex = MutexFree
    /\ callers = [t \in CacheCallers |-> CallerIdle]
    /\ cacheTTL = 1
    /\ maxCacheSize = MaxCap

NextKeys ==
    \/ \E t \in KeyTickers : FetchPrice(t)
    \/ \E r \in KeyRequests : FetchPriceHistory(r[1], r[2], r[3])
    \/ CacheTick

SpecKeys == InitKeys /\ [][NextKeys]_vars

\* The process that main starts with USE_REAL_DATA=true: the request path
\* calls FetchPrice on svc, the alert checker on the service of alertSvc
InitMain ==
    /\ now = 0
    /\ last = None
    /\ AlertInit
    /\ MainIdle
    /\ BatchIdle
    /\ cache = <<>>
    /\ putAt = <<>>
    /\ cacheMutex = MutexFree
    /\ callers = [t \in CacheCallers |-> CallerIdle]
    /\ cacheTTL = MaxTTL
    /\ maxCacheSize = MaxCap

NextMain ==
    \/ \E t \in CacheTickers : FetchPrice(t)
    \/ \E t \in CacheTickers : PriceSvcFetchPrice(t)
    \/ CacheTick

SpecMain == InitMain /\ [][NextMain]_vars

\* FetchPrice called by goroutines running side by side on one service
NextFlight ==
    \/ \E t \in CacheCallers, k \in CacheTickers : FetchPriceCalled(t, k)
    \/ \E t \in CacheCallers : UpstreamReturns(t)
    \/ CacheTick

SpecFlight == InitLocked /\ [][NextFlight]_vars

\* FetchPriceHistory calls on one AlphaVantageService
NextHistory ==
    \/ \E f \in FromDates, t \in ToDates : FetchPriceHistory("AAPL", f, t)
    \/ ClearCache
    \/ CacheTick

SpecHistory == InitCache /\ [][NextHistory]_vars

\* One FetchPrices call, from the start of its worker goroutines
InitBatch ==
    /\ now = 0
    /\ last = None
    /\ AlertInit
    /\ MainIdle
    /\ CacheIdle
    /\ tickers \in BatchInputs
    /\ wpc = [w \in 1..Len(tickers) |-> "wait"]
    /\ semaphore = 0
    /\ results = <<>>
    /\ errors = <<>>
    /\ outcome = [w \in 1..Len(tickers) |-> None]
    /\ batchRet = None
    /\ response = None
    /\ mutexes = MutexesFree
    /\ local = <<>>
    /\ logging = LoggingIdle

NextBatch ==
    \/ \E w \in Workers : Acquire(w)
    \/ \E w \in Workers : FetchAndRecord(w)
    \/ \E w \in Workers : Release(w)
    \/ BatchReturn
    \/ Respond

SpecBatch == InitBatch /\ [][NextBatch]_vars

\* no ticker occurs twice in the list
Distinct(list) == \A i, j \in 1..Len(list) : i # j => list[i] # list[j]

\* the lists of distinct tickers, and two lists that name a ticker twice
RecordInputs ==
    {l \in ListsOf(MaxShort) : Distinct(l)}
        \cup {<<"AAPL", "AAPL">>, <<"INVALID", "MSFT", "INVALID">>}

\* One FetchPrices call, the update of results and errors in its steps
InitRecord ==
    /\ now = 0
    /\ last = None
    /\ AlertInit
    /\ MainIdle
    /\ CacheIdle
    /\ tickers \in RecordInputs
    /\ wpc = [w \in 1..Len(tickers) |-> "wait"]
    /\ semaphore = 0
    /\ results = <<>>
    /\ errors = <<>>
    /\ outcome = [w \in 1..Len(tickers) |-> None]
    /\ batchRet = None
    /\ response = None
    /\ mutexes = MutexesFree
    /\ local = <<>>
    /\ logging = LoggingIdle

NextRecord ==
    \/ \E w \in Workers : Acquire(w)
    \/ \E w \in Workers : FetchDone(w)
    \/ \E w \in Workers : MutexLock(w)
    \/ \E w \in Workers : RecordRead(w)
    \/ \E w \in Workers : RecordWrite(w)
    \/ \E w \in Workers : MutexUnlock(w)
    \/ \E w \in Workers : Release(w)
    \/ BatchReturn

SpecRecord == InitRecord /\ [][NextRecord]_vars

\* a ticker list one longer than the semaphore is wide
OverCapList ==
    [i \in 1..(SemaphoreCap + 1) |->
        IF i % 3 = 0 THEN "INVALID" ELSE IF i % 3 = 1 THEN "AAPL" ELSE "MSFT"]

\* FetchPrices called with a list shorter than the semaphore is wide, or longer
InitBatchFair ==
    /\ now = 0
    /\ last = None
    /\ AlertInit
    /\ MainIdle
    /\ CacheIdle
    /\ tickers \in ListsOf(MaxShort) \cup {OverCapList}
    /\ wpc = [w \in 1..Len(tickers) |-> "wait"]
    /\ semaphore = 0
    /\ results = <<>>
    /\ errors = <<>>
    /\ outcome = [w \in 1..Len(tickers) |-> None]
    /\ batchRet = None
    /\ response = None
    /\ mutexes = MutexesFree
    /\ local = <<>>
    /\ logging = LoggingIdle

\* a ticker list of more than half the width of the semaphore
HalfCapList == SubSeq(OverCapList, 1, SemaphoreCap \div 2 + 1)

\* Two FetchPrices calls running side by side on one service
InitPeers ==
    /\ now = 0
    /\ last = None
    /\ AlertInit
    /\ CacheIdle
    /\ alertCache = <<>>
    /\ peer = [wpc |-> [w \in 1..Len(HalfCapList) |-> "wait"], semaphore |-> 0]
    /\ tickers = HalfCapList
    /\ wpc = [w \in 1..Len(tickers) |-> "wait"]
    /\ semaphore = 0
    /\ results = <<>>
    /\ errors = <<>>
    /\ outcome = [w \in 1..Len(tickers) |-> None]
    /\ batchRet = None
    /\ response = None
    /\ mutexes = MutexesFree
    /\ local = <<>>
    /\ logging = LoggingIdle

NextPeers ==
    \/ \E w \in Workers : Acquire(w)
    \/ \E w \in Workers : FetchAndRecord(w)
    \/ \E w \in Workers : Release(w)
    \/ BatchReturn
    \/ \E w \in PeerWorkers : PeerAcquire(w)
    \/ \E w \in PeerWorkers : PeerFetchReturns(w)
    \/ \E w \in PeerWorkers : PeerRelease(w)

SpecPeers == InitPeers /\ [][NextPeers]_vars

\* The same call, with every goroutine that can take a step taking it in the
\* end and every FetchPrice call returning
SpecBatchFair ==
    /\ InitBatchFair
    /\ [][NextBatch]_vars
    /\ WF_vars(\E w \in Workers : Acquire(w))
    /\ WF_vars(\E w \in Workers : FetchAndRecord(w))
    /\ WF_vars(\E w \in Workers : Release(w))
    /\ WF_vars(BatchReturn)

-----------------------------------------------------------------------------
(* Properties of the alert registry and evaluator *)

\* the condition of an alert holds of a price, by strict comparison
ConditionHolds(alert, p) ==
    \/ alert.Condition = "above" /\ p > alert.Threshold
    \/ alert.Condition = "below" /\ p < alert.Threshold

\* the step is the visit of alert id by the range loop of pass p
Visits(p, id) ==
    /\ pc[p] = "loop"
    /\ id \in remaining[p]
    /\ remaining'[p] = remaining[p] \ {id}

\* C1: with passes run one after another, an alert stays active when the
\* price observed for it does not satisfy its condition, is marked triggered
\* by the pass that observed the condition true, after that pass's one call of
\* sendWebhook, and every later visit of it by a pass skips it: no price
\* fetch, no webhook call, no change of the alert.  Each stored alert sees at
\* most one sendWebhook call and one assignment of TriggeredAt.
C1_TriggerOnceSequential ==
    [][\A p \in SeqPasses, id \in DOMAIN alerts :
        /\ (Visits(p, id) /\ ~alerts[id].Active) =>
               /\ pc'[p] = "loop"
               /\ alerts' = alerts
               /\ webhookCalls' = webhookCalls
               /\ transitions' = transitions
        /\ (pc[p] = "fetching" /\ cur[p] = id /\ pc'[p] = "loop") =>
               /\ alerts'[id] = alerts[id]
               /\ alerts'[id].Active
               /\ last'.result.err \/ ~ConditionHolds(alerts[id], last'.result.price)
        /\ (pc[p] = "fetching" /\ cur[p] = id /\ pc'[p] = "notify") =>
               /\ alerts'[id].Active
               /\ webhookCalls'[id] = 0
        /\ (pc[p] = "mark" /\ cur[p] = id /\ pc'[p] # "mark") =>
               /\ ~alerts'[id].Active
               /\ alerts'[id].TriggeredAt # NoTime
               /\ webhookCalls'[id] = 1
               /\ transitions'[id] = 1
        /\ (id \in DOMAIN alerts' /\ alerts[id].Active /\ ~alerts'[id].Active) =>
               pc[p] = "mark" /\ cur[p] = id
        /\ id \in DOMAIN alerts' => webhookCalls'[id] <= 1 /\ transitions'[id] <= 1
      ]_vars

\* C1 witness: a pass has just skipped an alert that an earlier pass triggered
C1_Witness ==
    /\ last.op = "skip"
    /\ last.id \in DOMAIN alerts
    /\ ~alerts[last.id].Active
    /\ webhookCalls[last.id] = 1
    /\ transitions[last.id] = 1

\* C2: with CheckAlerts passes running concurrently, each stored alert has
\* TriggeredAt assigned at most once and sendWebhook called at most once.
C2_TriggerOnceConcurrent ==
    \A id \in DOMAIN alerts : transitions[id] <= 1 /\ webhookCalls[id] <= 1

\* C8: when FetchPrice returns a price for an active alert, the pass goes on
\* to trigger the alert if and only if the alert is Above and the price is
\* greater than the threshold, or Below and the price is less; a fetch error
\* never triggers; and an alert is marked only by a pass whose price
\* satisfied the strict comparison.
C8_StrictCondition ==
    [][\A p \in Passes :
        /\ (pc[p] = "fetching" /\ pc'[p] # "fetching") =>
               LET alert == alerts[cur[p]]
                   r == last'.result
               IN  /\ last'.op = "fetched"
                   /\ r.err => pc'[p] = "loop"
                   /\ ~r.err => (pc'[p] = "notify" <=> ConditionHolds(alert, r.price))
                   /\ (~r.err /\ r.price = alert.Threshold) => pc'[p] = "loop"
        /\ pc'[p] \in {"notify", "mark"} => ConditionHolds(alerts'[cur'[p]], price'[p])
        /\ \A id \in DOMAIN alerts \cap DOMAIN alerts' :
               (alerts[id].Active /\ ~alerts'[id].Active) =>
                   \E q \in Passes : /\ pc[q] = "mark"
                                      /\ cur[q] = id
                                      /\ ConditionHolds(alerts[id], price[q])
      ]_vars

\* C8 witness: a price equal to the threshold was observed for an alert,
\* which was not triggered and is still active
C8_Witness ==
    /\ last.op = "fetched"
    /\ ~last.result.err
    /\ last.id \in DOMAIN alerts
    /\ last.result.price = alerts[last.id].Threshold
    /\ ~last.triggered
    /\ alerts[last.id].Active
    /\ pc[last.pass] = "loop"

\* the alerts of a registry that have the given definition
SameDefinition(reg, ticker, condition, threshold) ==
    {i \in DOMAIN reg : /\ reg[i].Ticker = ticker
                        /\ reg[i].Condition = condition
                        /\ reg[i].Threshold = threshold}

\* C9: a create of a definition that is already stored returns the id the
\* stored alert has, leaves exactly one alert of that definition in the
\* registry, and the record stored under the id is the one of this call: its
\* webhookURL, active, not triggered, created now; nothing else changes.
C9_IdempotentCreate ==
    [][last'.op = "create" =>
        LET c == last'
        IN  /\ SameDefinition(alerts, c.ticker, c.condition, c.threshold) \subseteq {c.id}
            /\ SameDefinition(alerts', c.ticker, c.condition, c.threshold) = {c.id}
            /\ DOMAIN alerts' = DOMAIN alerts \cup {c.id}
            /\ \A i \in DOMAIN alerts \ {c.id} : alerts'[i] = alerts[i]
            /\ c.alert = alerts'[c.id]
            /\ alerts'[c.id] = [ID |-> c.id, Ticker |-> c.ticker,
                                Condition |-> c.condition, Threshold |-> c.threshold,
                                WebhookURL |-> c.webhookURL, Active |-> TRUE,
                                CreatedAt |-> now, TriggeredAt |-> NoTime]
      ]_vars

\* C9 witness: a create has replaced a stored alert of the same definition
\* that had another webhookURL
C9_Witness ==
    /\ last.op = "create"
    /\ \E old \in last.replaced :
         /\ old.Ticker = last.ticker
         /\ old.Condition = last.condition
         /\ old.Threshold = last.threshold
         /\ old.WebhookURL # last.webhookURL
    /\ alerts[last.id].WebhookURL = last.webhookURL

\* C10 as stated: no operation makes the alert stored under an id active
\* again while the id stays in the registry.
C10_TriggeredIsTerminal ==
    [][\A id \in DOMAIN alerts \cap DOMAIN alerts' :
          ~alerts[id].Active => ~alerts'[id].Active]_vars

\* C10 amended: with passes run one after another, the alert stored under an
\* id, once inactive, is left as it is by every get, list and pass, and by
\* every create of another id; no pass fetches a price for it, calls
\* sendWebhook for it or marks it again.  Only a create of the same id
\* replaces it, by a new active alert.
C10_TerminalUntilRecreated ==
    [][/\ \A id \in DOMAIN alerts \cap DOMAIN alerts' :
            (~alerts[id].Active /\ ~(last'.op = "create" /\ last'.id = id)) =>
                /\ alerts'[id] = alerts[id]
                /\ webhookCalls'[id] = webhookCalls[id]
                /\ transitions'[id] = transitions[id]
       /\ \A id \in DOMAIN alerts \cap DOMAIN alerts' :
            (~alerts[id].Active /\ alerts'[id].Active) =>
                /\ last'.op = "create"
                /\ alerts'[id].TriggeredAt = NoTime
                /\ webhookCalls'[id] = 0
       /\ \A p \in Passes :
            pc'[p] \in {"fetching", "notify", "mark"} => alerts'[cur'[p]].Active
      ]_vars

\* C10 witness: a pass has just skipped an alert that was triggered before,
\* while another alert of the registry is still active
C10_Witness ==
    /\ last.op = "skip"
    /\ last.id \in DOMAIN alerts
    /\ ~alerts[last.id].Active
    /\ alerts[last.id].TriggeredAt # NoTime
    /\ webhookCalls[last.id] = 1
    /\ \E other \in DOMAIN alerts : alerts[other].Active

\* C11: whatever sendWebhook returns (nil, a transport error, a non-2xx
\* status), the pass that called it goes on to mark the alert, inactive with
\* TriggeredAt set, keeps the rest of its range to visit, makes exactly one
\* sendWebhook call for the trigger, and returns nil at its end; an alert
\* for which sendWebhook was called is inactive or about to be marked.
C11_WebhookFailureDoesNotBlock ==
    [][/\ \A p \in Passes :
            /\ (pc[p] = "notify" /\ pc'[p] # "notify") =>
                   /\ last'.op = "webhook"
                   /\ pc'[p] = "mark"
                   /\ cur'[p] = cur[p]
                   /\ remaining'[p] = remaining[p]
                   /\ webhookCalls'[cur[p]] = webhookCalls[cur[p]] + 1
                   /\ delivery'[cur[p]] \in {"none", "ok", "transport", "status"}
            /\ (pc[p] = "mark" /\ pc'[p] # "mark") =>
                   /\ ~alerts'[cur[p]].Active
                   /\ alerts'[cur[p]].TriggeredAt = now
                   /\ pc'[p] = "loop"
                   /\ remaining'[p] = remaining[p]
                   /\ webhookCalls'[cur[p]] = webhookCalls[cur[p]]
            /\ pc'[p] = "notify" => pc[p] \in {"fetching", "notify"}
       /\ last'.op = "checked" => ~last'.err
       /\ \A id \in DOMAIN alerts' :
            delivery'[id] # NotSent =>
                \/ ~alerts'[id].Active /\ alerts'[id].TriggeredAt # NoTime
                \/ \E q \in Passes : pc'[q] = "mark" /\ cur'[q] = id
      ]_vars

\* C11 witness: a pass has returned, and the registry holds an alert whose
\* webhook failed in transport and one whose webhook got a non-2xx status,
\* both triggered
C11_Witness ==
    /\ last.op = "checked"
    /\ ~last.err
    /\ \E a, b \in DOMAIN alerts :
         /\ delivery[a] = "transport"
         /\ delivery[b] = "status"
         /\ ~alerts[a].Active /\ alerts[a].TriggeredAt # NoTime
         /\ ~alerts[b].Active /\ alerts[b].TriggeredAt # NoTime
         /\ webhookCalls[a] = 1 /\ webhookCalls[b] = 1

\* C14: after cancel() the loop of StartAlertChecker starts at most one more
\* CheckAlerts pass.
C14_NoNewPassAfterCancel == checker.started <= 1

\* C15: a DeleteAlert called while passes are evaluating, the alert it
\* deletes included, waits for them and then succeeds; after it the alert is
\* in no get and no list; a pass never works on an alert that is not stored,
\* never adds an alert to the registry, and returns nil.
C15_DeleteDuringPass ==
    [][/\ last'.op = "delete" =>
            /\ last'.found <=> last'.id \in DOMAIN alerts
            /\ last'.blocked => last'.found
            /\ last'.id \notin DOMAIN alerts'
            /\ \A p \in Passes : pc[p] = "idle" /\ pc'[p] = "idle"
       /\ \A p \in Passes :
            pc'[p] \in {"fetching", "notify", "mark"} => cur'[p] \in DOMAIN alerts'
       /\ ~(DOMAIN alerts' \subseteq DOMAIN alerts) => last'.op = "create"
       /\ last'.op = "checked" => ~last'.err
       /\ last'.op = "get" => (last'.found <=> last'.id \in DOMAIN alerts)
       /\ last'.op = "list" => last'.alerts = {alerts[id] : id \in DOMAIN alerts}
      ]_vars

\* C15 witness: a DeleteAlert that was called while a pass was evaluating
\* the alert has returned success, and the alert is gone
C15_Witness ==
    /\ last.op = "delete"
    /\ last.found
    /\ last.blocked
    /\ last.raced
    /\ last.id \notin DOMAIN alerts

\* C18: GetAlert and DeleteAlert report not found exactly when no alert is
\* stored under the id, and then change nothing; GetAlert returns the stored
\* alert and changes nothing; DeleteAlert of a stored alert, active or
\* triggered, removes that alert and no other; ListAlerts returns the stored
\* alerts, so a deleted alert is in no later get or list.
C18_LookupAndDelete ==
    [][/\ last'.op = "get" =>
            /\ last'.found <=> last'.id \in DOMAIN alerts
            /\ last'.found => last'.alert = alerts[last'.id]
            /\ alerts' = alerts
       /\ last'.op = "delete" =>
            /\ last'.found <=> last'.id \in DOMAIN alerts
            /\ ~last'.found => alerts' = alerts
            /\ last'.found =>
                  /\ DOMAIN alerts' = DOMAIN alerts \ {last'.id}
                  /\ \A other \in DOMAIN alerts' : alerts'[other] = alerts[other]
       /\ last'.op = "list" =>
            /\ last'.alerts = {alerts[id] : id \in DOMAIN alerts}
            /\ alerts' = alerts
      ]_vars

\* C18 witness: a triggered alert has been deleted and another alert is
\* still stored
C18_Witness ==
    /\ last.op = "delete"
    /\ last.found
    /\ ~last.alert.Active
    /\ last.alert.TriggeredAt # NoTime
    /\ last.id \notin DOMAIN alerts
    /\ DOMAIN alerts # {}

\* C23: a FetchPrice error in a pass sends the pass to its next iteration
\* and changes no alert, calls no webhook and keeps the alerts still to be
\* visited; the pass ends only when it has visited every alert, and returns
\* nil; an alert whose fetch failed stays active with TriggeredAt unset and
\* no webhook call, and the next pass that visits it fetches its price again.
C23_FetchFailureIsLocal ==
    [][/\ \A p \in SeqPasses :
            /\ (pc[p] = "fetching" /\ pc'[p] # "fetching" /\ last'.result.err) =>
                   /\ pc'[p] = "loop"
                   /\ alerts' = alerts
                   /\ webhookCalls' = webhookCalls
                   /\ transitions' = transitions
                   /\ delivery' = delivery
                   /\ remaining'[p] = remaining[p]
                   /\ cur[p] \in failures'
            /\ (pc[p] # "idle" /\ pc'[p] = "idle") =>
                   /\ pc[p] = "loop"
                   /\ remaining[p] = {}
                   /\ last' = [op |-> "checked", pass |-> p, err |-> FALSE]
            /\ (pc[p] = "idle" /\ pc'[p] # "idle") => remaining'[p] = DOMAIN alerts
            /\ \A id \in failures :
                   Visits(p, id) => pc'[p] = "fetching" /\ cur'[p] = id
       /\ \A id \in failures' :
            /\ id \in DOMAIN alerts'
            /\ alerts'[id].Active
            /\ alerts'[id].TriggeredAt = NoTime
            /\ webhookCalls'[id] = 0
      ]_vars

\* C23 witness: a pass is fetching the price of an alert whose fetch failed
\* in an earlier pass, while another alert of that earlier pass was triggered
C23_Witness ==
    \E p \in SeqPasses :
        /\ pc[p] = "fetching"
        /\ cur[p] \in failures
        /\ alerts[cur[p]].Active
        /\ webhookCalls[cur[p]] = 0
        /\ \E id \in DOMAIN alerts : ~alerts[id].Active /\ transitions[id] = 1

\* C24: for an alert whose WebhookURL is empty, sendWebhook makes no HTTP
\* request and returns nil, and the pass that observed the condition true
\* goes on to set Active to false and TriggeredAt to the time of the pass.
C24_NoWebhookStillTriggers ==
    [][/\ \A p \in SeqPasses :
            /\ (pc[p] = "notify" /\ pc'[p] # "notify"
                    /\ alerts[cur[p]].WebhookURL = "") =>
                   /\ last'.op = "webhook"
                   /\ ~last'.posted
                   /\ ~last'.err
                   /\ pc'[p] = "mark"
                   /\ cur'[p] = cur[p]
                   /\ alerts' = alerts
            /\ (pc[p] = "mark" /\ pc'[p] # "mark"
                    /\ alerts[cur[p]].WebhookURL = "") =>
                   /\ ~alerts'[cur[p]].Active
                   /\ alerts'[cur[p]].TriggeredAt = now
                   /\ alerts'[cur[p]].TriggeredAt # NoTime
            /\ (pc[p] = "fetching" /\ pc'[p] # "fetching"
                    /\ alerts[cur[p]].WebhookURL = ""
                    /\ ~last'.result.err
                    /\ ConditionHolds(alerts[cur[p]], last'.result.price)) =>
                   pc'[p] = "notify"
       /\ \A id \in DOMAIN alerts' :
            alerts'[id].WebhookURL = "" => delivery'[id] \in {NotSent, "none"}
      ]_vars

\* C24 witness: an alert without a webhook URL has been triggered, its
\* sendWebhook call having made no request
C24_Witness ==
    \E id \in DOMAIN alerts :
        /\ alerts[id].WebhookURL = ""
        /\ ~alerts[id].Active
        /\ alerts[id].TriggeredAt # NoTime
        /\ delivery[id] = "none"
        /\ webhookCalls[id] = 1

\* C25: whenever a stored alert has Active false, the one sendWebhook call
\* for it has returned: exactly one call has been made for it, and no pass
\* is about to call sendWebhook for it.
C25_NotifyBeforeMutate ==
    \A id \in DOMAIN alerts :
        ~alerts[id].Active =>
            /\ webhookCalls[id] = 1
            /\ \A p \in Passes : ~(pc[p] = "notify" /\ cur[p] = id)

\* C26: when a pass assigns TriggeredAt and Active of an alert, no other
\* pass holds the read lock of alertsMutex.
C26_MutationIsExclusive ==
    [][\A p \in Passes :
        (pc[p] = "mark" /\ pc'[p] # "mark") => Readers \ {p} = {}
      ]_vars

\* C27: while a pass has a FetchPrice call or a sendWebhook call in flight,
\* the pass does not hold alertsMutex, and no DeleteAlert call is waiting
\* for the mutex.
C27_NoLockAcrossNetworkCall ==
    \A p \in SeqPasses :
        pc[p] \in {"fetching", "notify"} => (p \notin Readers /\ waiting = {})

-----------------------------------------------------------------------------
(* Properties of the logging decorator *)

\* C19: a method of LoggingService returns exactly the value and the error
\* that the wrapped service returned to it, and has called the wrapped
\* service once, with no call before the one whose results it returns.
C19_LoggingTransparent ==
    /\ logging.pos = "next" => logging.calls = 0
    /\ logging.pos = "deferred" => logging.calls = 1
    /\ logging.pos = "returned" =>
          /\ logging.calls = 1
          /\ logging.inner \in WrappedReturns(logging.method)
          /\ logging.outer = logging.inner
          /\ logging.outer.value = logging.inner.value
          /\ logging.outer.err = logging.inner.err
          /\ logging.entry.err = logging.inner.err

\* C19 witness: FetchPrices has returned a map together with an error, as
\* the wrapped service returned them
C19_Witness ==
    /\ logging.pos = "returned"
    /\ logging.method = "FetchPrices"
    /\ logging.inner.err # "nil"
    /\ logging.inner.value = priceMocks
    /\ logging.outer = logging.inner
    /\ logging.entry.took > 0

-----------------------------------------------------------------------------
(* Properties of the cache *)

\* C3: the store never holds more entries than maxCacheSize.
C3_CapacityInvariant == Cardinality(DOMAIN cache) <= maxCacheSize

\* C4: right after a set of a key the get of that key returns the value set;
\* a get finds a key only if the key was set and the time is not later than
\* the time of its latest set plus cacheTTL, also while the expired entry is
\* still in the store; a key never set is never found.
C4_CacheTTL ==
    /\ last.op = "setPrice" =>
           getCachedPrice(last.key) = [found |-> TRUE, price |-> last.price]
    /\ last.op = "setHistory" =>
           getCachedHistory(last.key) = [found |-> TRUE, history |-> last.history]
    /\ \A t \in CacheTickers :
           getCachedPrice(t).found =>
               t \in DOMAIN putAt /\ now <= putAt[t] + cacheTTL
    /\ \A k \in HistoryKeys :
           getCachedHistory(k).found =>
               k \in DOMAIN putAt /\ now <= putAt[k] + cacheTTL
    /\ last.op \in {"getPrice", "getHistory"} =>
           (last.got.found =>
               last.key \in DOMAIN putAt /\ now <= putAt[last.key] + cacheTTL)

\* C4 witness: a get of a key whose entry has expired and is still in the
\* store has returned absent
C4_Witness ==
    /\ last.op = "getPrice"
    /\ ~last.got.found
    /\ last.key \in DOMAIN cache
    /\ now > putAt[last.key] + cacheTTL

\* C17: ClearCache leaves the store empty, so that every get of a price or
\* of a history is absent after it; a key comes back into the store only by
\* a set of that key, and a get finds only keys that are in the store.
C17_ClearDropsEverything ==
    [][/\ last'.op = "clear" =>
            /\ DOMAIN cache' = {}
            /\ last'.dropped = DOMAIN cache
       /\ \A k \in CacheKeys :
            (k \notin DOMAIN cache /\ k \in DOMAIN cache') =>
                last'.op \in {"setPrice", "setHistory"} /\ last'.key = k
       /\ \A k \in CacheKeys :
            k \notin DOMAIN cache =>
                ~getCachedPrice(k).found /\ ~getCachedHistory(k).found
       /\ last'.op \in {"getPrice", "getHistory"} =>
            (last'.got.found => last'.key \in DOMAIN cache)
      ]_vars

\* C17 witness: a clear has dropped an entry that had not expired, and the
\* get of its key is absent
C17_Witness ==
    /\ last.op = "clear"
    /\ \E k \in last.dropped \cap CacheTickers :
         /\ now < putAt[k] + cacheTTL
         /\ ~getCachedPrice(k).found
    /\ \E k \in last.dropped \cap HistoryKeys :
         /\ now < putAt[k] + cacheTTL
         /\ ~getCachedHistory(k).found

\* C20 as stated: a get made at a time equal to the expiry of the entry
\* returns absent.
C20_AbsentAtExpiry ==
    (/\ last.op \in {"getPrice", "getHistory"}
     /\ last.key \in DOMAIN cache
     /\ now = cache[last.key].expiry) => ~last.got.found

\* C20 amended: a get returns the value of a stored entry exactly while the
\* time is not later than the expiry of the entry, which is the time of its
\* set plus cacheTTL: present up to and at the expiry, absent after it.
C20_ReadableThroughExpiry ==
    /\ \A k \in DOMAIN cache : cache[k].expiry = putAt[k] + cacheTTL
    /\ \A t \in CacheTickers :
         getCachedPrice(t) = IF t \in DOMAIN cache /\ now <= cache[t].expiry
                             THEN [found |-> TRUE, price |-> cache[t].price]
                             ELSE [found |-> FALSE, price |-> 0]
    /\ \A k \in HistoryKeys :
         getCachedHistory(k) = IF k \in DOMAIN cache /\ now <= cache[k].expiry
                               THEN [found |-> TRUE, history |-> cache[k].history]
                               ELSE [found |-> FALSE, history |-> <<>>]
    /\ last.op = "getPrice" => last.got = getCachedPrice(last.key)
    /\ last.op = "getHistory" => last.got = getCachedHistory(last.key)

\* C20 witness: a get made at the expiry of an entry, later than its set,
\* has returned the value
C20_Witness ==
    /\ last.op = "getPrice"
    /\ last.key \in DOMAIN cache
    /\ now = cache[last.key].expiry
    /\ putAt[last.key] < now
    /\ last.got.found
    /\ last.got.price = cache[last.key].price

\* a cache of MaxEntries entries, its keys numbered, their expiries spread
LargeCache == [k \in 1..MaxEntries |-> [price |-> 0, history |-> <<>>,
                                         expiry |-> (k * 7) % 11]]

\* two orders in which the range statement may visit the large cache
LargeOrders == {[i \in 1..MaxEntries |-> i], [i \in 1..MaxEntries |-> MaxEntries + 1 - i]}

\* evictOldest removes from c, visited in the given order, a tenth of the
\* entries (at least one), none of them expiring later than an entry it keeps
EvictsSoonest(c, order) ==
    LET kept == evictOldest(c, order)
        removed == DOMAIN c \ DOMAIN kept
    IN  /\ DOMAIN kept \subseteq DOMAIN c
        /\ \A k \in DOMAIN kept : kept[k] = c[k]
        /\ Cardinality(removed) = IF DOMAIN c = {} THEN 0
                                 ELSE NumToRemove(Cardinality(DOMAIN c))
        /\ \A r \in removed, k \in DOMAIN kept : c[r].expiry <= c[k].expiry

\* evictOldest on the large cache, in both orders
LargeCacheEvictsSoonest == \A order \in LargeOrders : EvictsSoonest(LargeCache, order)

\* C12: the entries that the capacity eviction of a set removes expire no
\* later than any entry it keeps, whatever the order in which the map is
\* visited; so does evictOldest applied to a cache large enough for a tenth
\* to be more than one entry.
C12_EvictsSoonestExpiring ==
    [][/\ last'.op \in {"setPrice", "setHistory"} =>
            LET swept == evictExpired(cache, now)
            IN  /\ last'.evicted \subseteq DOMAIN swept
                /\ \A r \in last'.evicted, k \in DOMAIN swept \ last'.evicted :
                       swept[r].expiry <= swept[k].expiry
                /\ \A k \in DOMAIN swept \ last'.evicted :
                       k # last'.key => (k \in DOMAIN cache' /\ cache'[k] = swept[k])
                /\ AtCapacity(swept) /\ DOMAIN swept # {} => last'.evicted # {}
                /\ ~AtCapacity(swept) => last'.evicted = {}
       /\ LargeCacheEvictsSoonest
      ]_vars

\* C12 witness: a set has evicted an entry and kept one that expires later
C12_Witness ==
    /\ last.op \in {"setPrice", "setHistory"}
    /\ last.evicted # {}
    /\ \E k \in DOMAIN cache : k # last.key /\ cache[k].expiry > now
    /\ Cardinality(DOMAIN cache) = 2

\* C21 as stated: right after a set made at time now the store holds no
\* entry, other than the one written, whose expiry is now or earlier.
C21_SweepComplete ==
    [][last'.op \in {"setPrice", "setHistory"} =>
           \A k \in DOMAIN cache' \ {last'.key} : cache'[k].expiry > now
      ]_vars

\* C21 amended: every set, of a price or of a history, at capacity or below
\* it, removes from the whole store exactly the entries whose expiry is
\* earlier than now; right after it the store holds no entry, other than
\* the one written, whose expiry is earlier than now, and an entry whose
\* expiry is now is not swept.
C21_SweepRemovesPast ==
    [][last'.op \in {"setPrice", "setHistory"} =>
           /\ last'.swept = {k \in DOMAIN cache : cache[k].expiry < now}
           /\ \A k \in last'.swept : k # last'.key => k \notin DOMAIN cache'
           /\ \A k \in DOMAIN cache' \ {last'.key} :
                  cache'[k].expiry >= now /\ cache'[k] = cache[k]
           /\ \A k \in DOMAIN cache \ (last'.swept \cup last'.evicted) :
                  k \in DOMAIN cache'
      ]_vars

\* C21 witness: a set of a price, made below capacity, has swept an expired
\* history entry and has left in the store a price entry whose expiry is now
C21_Witness ==
    /\ last.op = "setPrice"
    /\ last.swept \cap HistoryKeys # {}
    /\ last.evicted = {}
    /\ Cardinality(DOMAIN cache) <= maxCacheSize
    /\ \E k \in DOMAIN cache \ {last.key} : cache[k].expiry = now

\* the number of entries the claim has the eviction remove from n entries
Decile(n) == IF n \div 10 > 1 THEN n \div 10 ELSE 1

\* evictOldest removes a tenth of the large cache, in both orders
LargeCacheLosesDecile ==
    \A order \in LargeOrders :
        Cardinality(DOMAIN LargeCache \ DOMAIN evictOldest(LargeCache, order))
            = Decile(MaxEntries)

\* C22 as stated: a set that finds n >= maxCacheSize entries after the sweep
\* removes max(1, n / 10) of them.
C22_RemovesDecile ==
    [][last'.op \in {"setPrice", "setHistory"} =>
           LET swept == evictExpired(cache, now)
               n == Cardinality(DOMAIN swept)
           IN  n >= maxCacheSize => Cardinality(last'.evicted) = Decile(n)
      ]_vars

\* C22 amended: a set that finds n >= maxCacheSize entries after the sweep
\* removes max(1, n / 10) of them when n > 0 and none when n = 0, a set that
\* finds fewer removes none, and the insertion follows the removal;
\* evictOldest removes a tenth of a cache of MaxEntries entries.
C22_RemovesDecileUnlessEmpty ==
    [][/\ last'.op \in {"setPrice", "setHistory"} =>
            LET swept == evictExpired(cache, now)
                n == Cardinality(DOMAIN swept)
            IN  /\ (n >= maxCacheSize /\ n > 0) =>
                       Cardinality(last'.evicted) = Decile(n)
                /\ (n >= maxCacheSize /\ n = 0) => last'.evicted = {}
                /\ n < maxCacheSize => last'.evicted = {}
                /\ last'.evicted \subseteq DOMAIN swept
                /\ DOMAIN cache' = (DOMAIN swept \ last'.evicted) \cup {last'.key}
       /\ LargeCacheLosesDecile
      ]_vars

\* C22 witness: a set that found the store full, two entries with
\* maxCacheSize two, has removed one entry and inserted its own
C22_Witness ==
    /\ last.op \in {"setPrice", "setHistory"}
    /\ maxCacheSize = 2
    /\ last.swept = {}
    /\ Cardinality(last.evicted) = 1
    /\ last.key \notin last.evicted
    /\ Cardinality(DOMAIN cache) = 2

\* C37: a set that finds fewer than maxCacheSize entries after the sweep, and
\* a set of a key that is already in the store, keeps every other unexpired
\* entry as it was.
C37_OverwriteEvictsNothing ==
    [][last'.op \in {"setPrice", "setHistory"} =>
           LET swept == evictExpired(cache, now)
           IN  (Cardinality(DOMAIN swept) < maxCacheSize \/ last'.key \in DOMAIN cache)
                  => \A k \in DOMAIN swept \ {last'.key} :
                         k \in DOMAIN cache' /\ cache'[k] = cache[k]
      ]_vars

\* the dates of a history never go down
Ascending(h) == \A i, j \in 1..Len(h) : i < j => DayOf[h[i]] <= DayOf[h[j]]

\* C13: every history that FetchPriceHistory returns, from upstream or from
\* the cache, is in ascending date order.
C13_HistoryAscending ==
    (last.op = "fetchHistory" /\ ~last.err) => Ascending(last.history)

\* C16: a FetchPrice of a ticker whose entry is in the cache and unexpired
\* makes no upstream call, returns the price of the entry and leaves the
\* cache as it is; the entry holds the price that the upstream call which
\* stored it returned, and no step changes the price of an entry it keeps,
\* other than an upstream fetch of that ticker.
C16_RepeatedReadsFromCache ==
    [][/\ \A t \in CacheTickers :
            (last'.op = "fetchPrice" /\ last'.key = t /\ now' = now
               /\ t \in DOMAIN cache /\ now < cache[t].expiry) =>
                /\ ~last'.upstream
                /\ ~last'.err
                /\ last'.price = cache[t].price
                /\ cache' = cache
       /\ (last'.op = "fetchPrice" /\ last'.upstream /\ ~last'.err) =>
                /\ last'.key \in DOMAIN cache'
                /\ cache'[last'.key].price = last'.price
                /\ cache'[last'.key].expiry = now + cacheTTL
       /\ \A t \in CacheTickers \cap DOMAIN cache \cap DOMAIN cache' :
            cache'[t] # cache[t] =>
                last'.op = "fetchPrice" /\ last'.key = t /\ last'.upstream
      ]_vars

\* C16 witness: a FetchPrice was served from the cache, without an upstream
\* call, the price an earlier FetchPrice had stored at an earlier time
C16_Witness ==
    /\ last.op = "fetchPrice"
    /\ ~last.upstream
    /\ ~last.err
    /\ last.key \in DOMAIN cache
    /\ last.price = cache[last.key].price
    /\ putAt[last.key] < now
    /\ now < cache[last.key].expiry
    /\ Cardinality(DOMAIN cache) > 1

\* the call is between the return of Lock and the return of Unlock
Writing(call) == call.pos \in {"sweep", "evict", "insert", "clearing", "unlock"}

\* the call is between the return of RLock and the return of RUnlock
Reading(call) == call.pos \in {"read", "runlock"}

\* C28: while a goroutine is inside a set or a clear, no other goroutine is
\* inside a set, a clear or a get; the cache changes only in a step of the
\* one goroutine that is inside a set or a clear, so that the sweep, the
\* eviction and the insertion of a set are not interleaved with any other
\* cache operation, and a get reads the map only while nobody writes it.
C28_ReaderWriterDiscipline ==
    [][/\ \A t, u \in CacheCallers :
            (t # u /\ Writing(callers'[t])) =>
                ~Writing(callers'[u]) /\ ~Reading(callers'[u])
       /\ \A t \in CacheCallers :
            Writing(callers[t]) =>
                \A u \in CacheCallers \ {t} :
                    \/ callers'[u] = callers[u]
                    \/ callers[u].pos = "idle" /\ callers'[u].pos \in {"rlock", "lock"}
       /\ cache' # cache =>
            \E t \in CacheCallers :
                /\ Writing(callers[t])
                /\ cacheMutex.writer = t
                /\ callers'[t] # callers[t]
       /\ \A t \in CacheCallers :
            (callers[t].pos = "read" /\ callers'[t].pos # "read") =>
                /\ cacheMutex.writer = NoCaller
                /\ \A u \in CacheCallers : ~Writing(callers[u])
      ]_vars

\* C28 witness: two goroutines are inside a get at the same time while a
\* third, which called a set, waits in Lock with entries in the store
C28_Witness ==
    \E t, u, w \in CacheCallers :
        /\ t # u
        /\ callers[t].pos = "read"
        /\ callers[u].pos = "read"
        /\ callers[w].pos = "lock"
        /\ callers[w].call = "set"
        /\ DOMAIN cache # {}

\* C31: a FetchPrice that returns a price returns one that the quote source
\* reported for its ticker, never the price field of an entry that a history
\* was stored in, and two FetchPriceHistory requests that differ in ticker,
\* fromDate or toDate have different cache keys.
C31_KeysNeverCollide ==
    [][/\ (last'.op = "fetchPrice" /\ ~last'.err) => last'.price \in Quotes(last'.key)
       /\ \A t1, t2 \in KeyTickers, f1, f2, d1, d2 \in KeyDates :
            <<t1, f1, d1>> # <<t2, f2, d2>> =>
                HistoryKey(t1, f1, d1) # HistoryKey(t2, f2, d2)
      ]_vars

------------------------------------------------------------------------\* C36: a FetchPrice or FetchPriceHistory call that returns an error leaves
\* the cache as it was: no entry is added, removed or changed, and a lookup
\* of the key it asked for still misses.
C36_FailuresAreNotCached ==
    [][(last'.op \in {"fetchPrice", "fetchHistory"} /\ last'.err)
          => /\ cache' = cache
             /\ putAt' = putAt
             /\ last'.key \in DOMAIN cache' => After(now', cache'[last'.key].expiry)
      ]_vars

\* a fetch has failed while the cache held an unexpired entry of another key
\* and an expired one
C36_Witness ==
    /\ last.op \in {"fetchPrice", "fetchHistory"}
    /\ last.err
    /\ \E k \in DOMAIN cache : k # last.key /\ ~After(now, cache[k].expiry)
    /\ \E k \in DOMAIN cache : After(now, cache[k].expiry)

\* C32: a price that one of the two call sites (request path, alert checker)
\* has cached and that has not expired is served to the other one's next
\* FetchPrice of that ticker without an upstream call.
C32_OneCacheForBoth ==
    [][/\ (last'.op = "priceSvc.fetchPrice" /\ getCachedPrice(last'.key).found)
            => ~last'.upstream
       /\ (last'.op = "fetchPrice" /\ getAlertCachedPrice(last'.key).found)
            => ~last'.upstream
      ]_vars

\* C38: two definitions that differ in ticker, condition or threshold have
\* different ids, and a CreateAlert replaces only an alert of the definition
\* it is given.
C38_IdsAreInjective ==
    [][/\ \A t1, t2 \in AlertTickers, c1, c2 \in Conditions, th1, th2 \in Thresholds :
            <<t1, c1, th1>> # <<t2, c2, th2>> => AlertID(t1, c1, th1) # AlertID(t2, c2, th2)
       /\ last'.op = "create" =>
            \A a \in last'.replaced : /\ a.Ticker = last'.ticker
                                      /\ a.Condition = last'.condition
                                      /\ a.Threshold = last'.threshold
      ]_vars

\* C39: the passes of one StartAlertChecker loop follow one another.  When
\* the loop starts no tick is waiting and no pass runs; a pass begins only
\* from the select, by taking the one tick that waits in ticker.C; a tick
\* that the ticker sends while a pass runs waits until the pass has returned,
\* and begins no pass.
C39_PassesInSequence ==
    [][/\ last.op = "none" => (~checker.tick /\ pc[CheckerPass] = "idle")
       /\ (pc[CheckerPass] = "idle" /\ pc'[CheckerPass] # "idle")
            => (checker.tick /\ ~checker'.tick /\ ~checker.returned)
       /\ pc[CheckerPass] # "idle"
            => /\ checker.tick => checker'.tick
               /\ checker'.tick # checker.tick => pc'[CheckerPass] = pc[CheckerPass]
      ]_vars

\* a tick is waiting while a pass of the loop is still running
C39_Witness ==
    /\ pc[CheckerPass] = "fetching"
    /\ checker.tick
    /\ ~checker.cancelled
    /\ last.op = "step"

\* C33: every alert that GetAlert or ListAlerts returns is either active with
\* no TriggeredAt or inactive with a TriggeredAt, also while a pass is running.
C33_NoHalfTriggered ==
    [][/\ (last'.op = "get" /\ last'.found)
            => (last'.alert.Active <=> last'.alert.TriggeredAt = NoTime)
       /\ last'.op = "list"
            => \A a \in last'.alerts : a.Active <=> a.TriggeredAt = NoTime
      ]_vars

\* C34: of the FetchPrice calls running at the same time for one ticker, at
\* most one has an upstream request in flight.
C34_OneUpstreamCallPerTicker ==
    \A k \in CacheTickers :
        Cardinality({t \in CacheCallers :
                        callers[t].pos = "upstream" /\ callers[t].key = k}) <= 1

-----
(* Properties of the batch fetch *)

SucceededIn(list, outs) == {w \in 1..Len(list) : outs[w] # None /\ ~outs[w].err}
FailedIn(list, outs) == {w \in 1..Len(list) : outs[w] # None /\ outs[w].err}

Succeeded == SucceededIn(tickers, outcome)
Failed == FailedIn(tickers, outcome)

\* what the per-ticker fetches of the mock return
MockOutcomes(list) == [i \in 1..Len(list) |-> MockPriceFetcher(list[i])]

\* the verdict rule, of the value returned for a list whose fetches had the
\* given outcomes
FollowsVerdictRule(ret, list, outs) ==
    LET ok == SucceededIn(list, outs)
    IN  /\ ret.failed <=> (ok = {} /\ FailedIn(list, outs) # {})
        /\ ~ret.failed =>
              /\ DOMAIN ret.prices = {list[w] : w \in ok}
              /\ \A t \in DOMAIN ret.prices :
                    ret.prices[t] \in {outs[w].price : w \in {x \in ok : list[x] = t}}

\* C5: FetchPrices and MockBatchPriceFetcher fail if and only if no fetch
\* succeeded and at least one failed; otherwise (a success, or an empty list)
\* they return a map of exactly the tickers of which a fetch succeeded, each
\* with a price a successful fetch of it returned.
C5_BatchVerdict ==
    /\ batchRet # None => FollowsVerdictRule(batchRet, tickers, outcome)
    /\ FollowsVerdictRule(MockBatchPriceFetcher(tickers), tickers, MockOutcomes(tickers))

\* C5 witness: a call with successes and failures has returned success
C5_Witness ==
    /\ batchRet # None
    /\ ~batchRet.failed
    /\ Succeeded # {}
    /\ Failed # {}
    /\ DOMAIN batchRet.prices # {}

\* C6: when some fetches succeeded and some failed, what FetchPrices returns,
\* and the response written from it, carry one error for each failed ticker.
C6_PartialSuccessReportsErrors ==
    /\ (batchRet # None /\ Succeeded # {} /\ Failed # {}) =>
           Len(batchRet.reported) = Cardinality(Failed)
    /\ (response # None /\ Succeeded # {} /\ Failed # {}) =>
           Len(response.Errors) = Cardinality(Failed)

\* C7: at most SemaphoreCap workers are between their acquire and their
\* release, so at most that many FetchPrice calls of the invocation are in
\* flight; a worker waiting for a permit has no outcome yet, and every error
\* recorded is the failure of a fetch that was made.
C7_ConcurrencyCap ==
    LET holding == {w \in Workers : wpc[w] \in {"fetch", "release"}}
    IN  /\ Cardinality(holding) <= 5
        /\ Cardinality({w \in Workers : wpc[w] = "fetch"}) <= 5
        /\ semaphore = Cardinality(holding)
        /\ \A w \in Workers : wpc[w] = "wait" => outcome[w] = None
        /\ Len(errors) = Cardinality(Failed)

\* C7 witness: five fetches are in flight and a sixth worker waits
C7_Witness ==
    /\ Cardinality({w \in Workers : wpc[w] = "fetch"}) = 5
    /\ \E w \in Workers : wpc[w] = "wait"

\* C29: FetchPrices returns in the end, whatever the length of the ticker
\* list, and from then on every token put into the semaphore has been taken
\* out again and every worker has finished.
C29_BatchTerminates ==
    <>[](/\ batchRet # None
         /\ semaphore = 0
         /\ \A w \in Workers : wpc[w] = "done")

\* C29 witness: FetchPrices has returned for a list longer than the
\* semaphore is wide, with failed and succeeded workers, all tokens returned
C29_Witness ==
    /\ batchRet # None
    /\ Len(tickers) > SemaphoreCap
    /\ semaphore = 0
    /\ Failed # {}
    /\ Succeeded # {}

\* the tickers that the entries of errors are about
ErrorTickers == {errors[i] : i \in 1..Len(errors)}

\* C30: a worker's FetchPrice returns once, whatever its siblings returned;
\* when every worker has finished, every worker has an outcome, results
\* holds exactly the tickers of the workers that succeeded, each with the
\* price its worker fetched, and errors holds one entry for each worker
\* that failed; for distinct tickers each ticker is in results or in errors
\* and not in both, and the two sizes add up to the number of tickers.
C30_EachSymbolResolvedOnce ==
    [][/\ \A w \in Workers :
            /\ outcome[w] # None => outcome'[w] = outcome[w]
            /\ wpc[w] = "fetch" =>
                   \A r \in FetchOutcomes(tickers[w]) :
                       ENABLED (FetchDone(w) /\ outcome'[w] = r)
       /\ (\A w \in Workers : wpc'[w] = "done") =>
            /\ \A w \in Workers : outcome'[w] # None
            /\ DOMAIN results' = {tickers[w] : w \in SucceededIn(tickers, outcome')}
            /\ \A w \in SucceededIn(tickers, outcome') :
                   \E v \in SucceededIn(tickers, outcome') :
                       tickers[v] = tickers[w] /\ results'[tickers[w]] = outcome'[v].price
            /\ Len(errors') = Cardinality(FailedIn(tickers, outcome'))
            /\ \A t \in BatchSymbols :
                   Cardinality({i \in 1..Len(errors') : errors'[i] = t})
                       = Cardinality({w \in FailedIn(tickers, outcome') : tickers[w] = t})
            /\ Distinct(tickers) =>
                   /\ Cardinality(DOMAIN results') + Len(errors') = Len(tickers)
                   /\ \A w \in Workers :
                          (tickers[w] \in DOMAIN results')
                              # (\E i \in 1..Len(errors') : errors'[i] = tickers[w])
      ]_vars

\* C30 witness: three workers for three distinct tickers have finished, one
\* recorded in errors and two in results
C30_Witness ==
    /\ Len(tickers) = 3
    /\ Distinct(tickers)
    /\ \A w \in Workers : wpc[w] = "done"
    /\ Len(errors) = 1
    /\ Cardinality(DOMAIN results) = 2
    /\ ErrorTickers \cap DOMAIN results = {}

\* C35: the FetchPrice calls in flight in the workers of all FetchPrices
\* calls together never number more than the width of the semaphore.
C35_UpstreamBoundedOverall ==
    Cardinality({w \in Workers : wpc[w] = "fetch"}) + PeerInFlight <= SemaphoreCap

\* C40: when every fetch of a FetchPrices call has returned what
\* MockPriceFetcher returns for its ticker, FetchPrices returns the map that
\* MockBatchPriceFetcher returns for the list, and fails exactly when it
\* fails, in whatever order the workers ran.
C40_ConcurrentAgreesWithSequential ==
    (batchRet # None /\ outcome = MockOutcomes(tickers)) =>
        /\ batchRet.failed = MockBatchPriceFetcher(tickers).failed
        /\ batchRet.prices = MockBatchPriceFetcher(tickers).prices

\* a call of three tickers, one of them unknown, has returned, its fetches
\* having returned what the mock returns
C40_Witness ==
    /\ batchRet # None
    /\ outcome = MockOutcomes(tickers)
    /\ Len(tickers) = 3
    /\ Succeeded # {}
    /\ Failed # {}
    /\ DOMAIN batchRet.prices # {}

====
